---- MODULE Spec2Model ----
(***************************************************************************)
(* A model of the PO catalog reconciliation engine (src/po_parser.py):     *)
(* POParser's load / export / import / save operations and the three       *)
(* normalizer passes, over texts represented as sequences of characters;   *)
(* of TextProcessor (src/text_processor.py), of the window's threads       *)
(* (src/gui.py) and of the command line (src/main.py).                     *)
(*                                                                         *)
(* A text is a sequence of one-character strings.  The few characters the  *)
(* code treats specially are named below.                                  *)
(***************************************************************************)
EXTENDS Integers, Sequences, FiniteSets, TLC

LF == "\n"
CR == "\r"
FF == "\f"
TAB == "\t"
BS == "\\"
\* U+3000, the ideographic space tested by _ensure_placeholders_by_set
IDSP == "u3000"
\* any CJK letter: a word character for \w and \b, not ASCII
CJK == "cjk"

\* str.strip() / \s
Whitespace == {" ", TAB, LF, CR, FF, IDSP}
Digits == {"0", "1", "2", "3", "4", "5", "6", "7", "8", "9"}
Letters ==
  {"a", "b", "c", "d", "e", "f", "g", "h", "i", "j", "k", "l", "m", "n", "o",
   "p", "q", "r", "s", "t", "u", "v", "w", "x", "y", "z",
   "A", "B", "C", "D", "E", "F", "G", "H", "I", "J", "K", "L", "M", "N", "O",
   "P", "Q", "R", "S", "T", "U", "V", "W", "X", "Y", "Z"}
\* \w
WordChars == Letters \cup Digits \cup {"_", CJK}

----------------------------------------------------------------------------
(* Python string primitives *)

startswith(s, p) == Len(s) >= Len(p) /\ SubSeq(s, 1, Len(p)) = p

endswith(s, p) == Len(s) >= Len(p) /\ SubSeq(s, Len(s) - Len(p) + 1, Len(s)) = p

\* str.replace(old, new): leftmost, non-overlapping
RECURSIVE replace(_, _, _)
replace(s, old, new) ==
  IF s = <<>> THEN <<>>
  ELSE IF startswith(s, old)
       THEN new \o replace(SubSeq(s, Len(old) + 1, Len(s)), old, new)
       ELSE <<Head(s)>> \o replace(Tail(s), old, new)

RECURSIVE lstrip(_)
lstrip(s) == IF s # <<>> /\ Head(s) \in Whitespace THEN lstrip(Tail(s)) ELSE s

RECURSIVE rstrip(_)
rstrip(s) ==
  IF s # <<>> /\ s[Len(s)] \in Whitespace
  THEN rstrip(SubSeq(s, 1, Len(s) - 1))
  ELSE s

strip(s) == rstrip(lstrip(s))

\* str.join over a list of texts
RECURSIVE join(_, _)
join(sep, xs) ==
  IF xs = <<>> THEN <<>>
  ELSE IF Len(xs) = 1 THEN xs[1]
  ELSE xs[1] \o sep \o join(sep, Tail(xs))

\* str(k) for k >= 0
DigitChar(d) ==
  CASE d = 0 -> "0" [] d = 1 -> "1" [] d = 2 -> "2" [] d = 3 -> "3"
    [] d = 4 -> "4" [] d = 5 -> "5" [] d = 6 -> "6" [] d = 7 -> "7"
    [] d = 8 -> "8" [] d = 9 -> "9"

RECURSIVE str(_)
str(k) == IF k < 10 THEN <<DigitChar(k)>> ELSE str(k \div 10) \o <<DigitChar(k % 10)>>

\* open(path, 'r').read(): universal newlines turn \r\n and \r into \n
read(content) == replace(replace(content, <<CR, LF>>, <<LF>>), <<CR>>, <<LF>>)

\* str.splitlines(): the breaks of the modelled alphabet; no trailing empty line
RECURSIVE splitlines_from(_, _, _)
splitlines_from(s, cur, acc) ==
  IF s = <<>> THEN (IF cur = <<>> THEN acc ELSE Append(acc, cur))
  ELSE IF startswith(s, <<CR, LF>>)
       THEN splitlines_from(SubSeq(s, 3, Len(s)), <<>>, Append(acc, cur))
  ELSE IF Head(s) \in {LF, CR, FF}
       THEN splitlines_from(Tail(s), <<>>, Append(acc, cur))
  ELSE splitlines_from(Tail(s), Append(cur, Head(s)), acc)

splitlines(s) == splitlines_from(s, <<>>, <<>>)

----------------------------------------------------------------------------
(* Regular expressions of the placeholder detection, computed as re does:  *)
(* a match attempt at position i yields the end position of the match, or  *)
(* 0 when there is none; finditer scans left to right without overlap.     *)

\* the character at position p, "" past either end
At(t, p) == IF p \in 1..Len(t) THEN t[p] ELSE ""

\* first position >= p whose character is not in S (Len(t)+1 when none)
RECURSIVE RunEnd(_, _, _)
RunEnd(t, p, S) == IF At(t, p) \in S THEN RunEnd(t, p + 1, S) ELSE p

\* first position >= p whose character is in S (Len(t)+1 when none)
RECURSIVE FindChar(_, _, _)
FindChar(t, p, S) ==
  IF p > Len(t) \/ t[p] \in S THEN p ELSE FindChar(t, p + 1, S)

ConvChars ==
  {"d", "i", "u", "o", "x", "X", "f", "F", "e", "E", "g", "G", "a", "A", "c",
   "s", "p", "n"}
FlagChars == {"#", "0", "-", " ", "+"}
LengthChars == {"h", "l", "j", "z", "t", "L"}

\* (?:\d+\$|\([^)]+\))?   positions reachable after the optional group
PrintfGroup(t, p) ==
  LET d == RunEnd(t, p, Digits)
      r == FindChar(t, p + 1, {")"})
  IN  {p}
      \cup (IF d > p /\ At(t, d) = "$" THEN {d + 1} ELSE {})
      \cup (IF At(t, p) = "(" /\ r <= Len(t) /\ r > p + 1 THEN {r + 1} ELSE {})

\* [#0\- +]*
PrintfFlags(t, p) == p..RunEnd(t, p, FlagChars)

\* (?:\*|\d+)?
PrintfWidth(t, p) ==
  {p} \cup (IF At(t, p) = "*" THEN {p + 1} ELSE {})
      \cup ((p + 1)..RunEnd(t, p, Digits))

\* (?:\.(?:\*|\d+))?
PrintfPrecision(t, p) ==
  {p} \cup (IF At(t, p) = "."
            THEN (IF At(t, p + 1) = "*" THEN {p + 2} ELSE {})
                 \cup ((p + 2)..RunEnd(t, p + 1, Digits))
            ELSE {})

\* (?:hh|h|l|ll|j|z|t|L)?
PrintfLength(t, p) ==
  {p} \cup (IF At(t, p) = "h" /\ At(t, p + 1) = "h" THEN {p + 2} ELSE {})
      \cup (IF At(t, p) \in LengthChars THEN {p + 1} ELSE {})
      \cup (IF At(t, p) = "l" /\ At(t, p + 1) = "l" THEN {p + 2} ELSE {})

\* printf_re tried at position i: the positions of the conversion character
\* over every way to match the optional parts
PrintfEnds(t, i) ==
  IF At(t, i) = "%" /\ At(t, i + 1) # "%"
  THEN LET g == PrintfGroup(t, i + 1)
           f == UNION {PrintfFlags(t, p) : p \in g}
           w == UNION {PrintfWidth(t, p) : p \in f}
           c == UNION {PrintfPrecision(t, p) : p \in w}
           l == UNION {PrintfLength(t, p) : p \in c}
       IN  {p \in l : At(t, p) \in ConvChars}
  ELSE {}

printf_re(t, i) ==
  LET E == PrintfEnds(t, i)
  IN  IF E = {} THEN 0 ELSE CHOOSE e \in E : \A x \in E : e <= x

\* qt_re  %(?!%)(\d+)\b  tried at position i
qt_re(t, i) ==
  LET d == RunEnd(t, i + 1, Digits)
  IN  IF At(t, i) = "%" /\ d > i + 1 /\ At(t, d) \notin WordChars
      THEN d - 1 ELSE 0

\* brace_re  \{(?:\w+|\d+)(?:[^{}]*)\}  tried at position i
brace_re(t, i) ==
  LET r == FindChar(t, i + 2, {"{", "}"})
  IN  IF At(t, i) = "{" /\ At(t, i + 1) \in WordChars /\ At(t, r) = "}"
      THEN r ELSE 0

\* the simplified pattern of _normalize_plural_entries  %(?:\d+\$)?[sd]
placeholder_re(t, i) ==
  LET d == RunEnd(t, i + 1, Digits)
  IN  IF At(t, i) # "%" THEN 0
      ELSE IF At(t, i + 1) \in {"s", "d"} THEN i + 1
      ELSE IF d > i + 1 /\ At(t, d) = "$" /\ At(t, d + 1) \in {"s", "d"}
           THEN d + 1
      ELSE 0

\* has_placeholder(s): placeholder_re.search
has_placeholder(s) == \E i \in 1..Len(s) : placeholder_re(s, i) # 0

AppendNew(tokens, tok) ==
  IF \E k \in 1..Len(tokens) : tokens[k] = tok THEN tokens ELSE Append(tokens, tok)

RECURSIVE PrintfTokens(_, _, _)
PrintfTokens(t, i, acc) ==
  IF i > Len(t) THEN acc
  ELSE LET e == printf_re(t, i)
       IN  IF e = 0 THEN PrintfTokens(t, i + 1, acc)
           ELSE PrintfTokens(t, e + 1, AppendNew(acc, SubSeq(t, i, e)))

RECURSIVE QtTokens(_, _, _)
QtTokens(t, i, acc) ==
  IF i > Len(t) THEN acc
  ELSE LET e == qt_re(t, i)
       IN  IF e = 0 THEN QtTokens(t, i + 1, acc)
           ELSE QtTokens(t, e + 1, AppendNew(acc, SubSeq(t, i, e)))

RECURSIVE BraceTokens(_, _, _)
BraceTokens(t, i, acc) ==
  IF i > Len(t) THEN acc
  ELSE LET e == brace_re(t, i)
       IN  IF e = 0 THEN BraceTokens(t, i + 1, acc)
           ELSE BraceTokens(t, e + 1, AppendNew(acc, SubSeq(t, i, e)))

\* POParser._extract_placeholders: the tokens of the three families, in
\* order of first appearance per family, without duplicates
extract_placeholders(text) ==
  BraceTokens(text, 1, QtTokens(text, 1, PrintfTokens(text, 1, <<>>)))

Range(xs) == {xs[k] : k \in 1..Len(xs)}

\* POParser._ensure_placeholders_by_set
ensure_placeholders_by_set(text, src_placeholders) ==
  LET tgt_tokens == Range(extract_placeholders(text))
      IsMissing(t) == t # <<>> /\ t \notin tgt_tokens
      missing == SelectSeq(src_placeholders, IsMissing)
      sep == IF Len(text) = 0 \/ endswith(text, <<" ">>) \/ endswith(text, <<IDSP>>)
             THEN <<>> ELSE <<" ">>
  IN  IF missing = <<>> THEN text
      ELSE rstrip(text \o sep \o join(<<" ">>, missing))

----------------------------------------------------------------------------
(* The catalog.  An entry is a polib POEntry:                              *)
(*   msgid, msgid_plural (<<>> when the entry is not pluralizable),        *)
(*   msgstr, msgstr_plural (a dict: a function on a set of form indices),  *)
(*   obsolete.                                                             *)
(* The metadata keeps what the engine reads: PluralForms is <<>> when the  *)
(* header has no Plural-Forms with an nplurals=<digits>, else <<nplurals>>.*)

\* LANGUAGE_CONFIG: language code -> the nplurals of its plural_forms rule
\* (the codes the model uses, out of the table's ~90)
LANGUAGE_CONFIG ==
  ("zh_CN" :> 1) @@ ("ja_JP" :> 1) @@ ("en_US" :> 2) @@ ("fr_FR" :> 2)
  @@ ("ru_RU" :> 3) @@ ("ar_SA" :> 6)

\* dict.get(k, default)
Get(d, k, default) == IF k \in DOMAIN d THEN d[k] ELSE default

\* the truth value of self.po_file: None and an empty POFile (a list) are false
Truthy(loaded, es) == loaded /\ es # <<>>

\* POParser._get_plural_count_from_po
get_plural_count_from_po(loaded, es, md) ==
  IF Truthy(loaded, es) /\ md.PluralForms # <<>> THEN md.PluralForms[1] ELSE 2

\* POParser._get_plural_count
get_plural_count(language_code) ==
  IF language_code # "" /\ language_code \in DOMAIN LANGUAGE_CONFIG
  THEN LANGUAGE_CONFIG[language_code]
  ELSE 2

\* a resolution in which a declared count beats the language code
resolve_declared_first(loaded, es, md, language_code) ==
  IF Truthy(loaded, es) /\ md.PluralForms # <<>> THEN md.PluralForms[1]
  ELSE get_plural_count(language_code)

\* the count both import and normalization resolve:
\* _get_plural_count(language_code) if language_code else _get_plural_count_from_po()
resolve_plural_count(loaded, es, md, language_code) ==
  IF language_code # "" THEN get_plural_count(language_code)
  ELSE get_plural_count_from_po(loaded, es, md)

Max(a, b) == IF a >= b THEN a ELSE b

\* a collapse that always keeps form 0
collapse_keep_form_zero(e) == strip(Get(e.msgstr_plural, 0, <<>>))

\* the nplurals=1 branch of _normalize_plural_entries, for one entry
collapse_single_form(e) ==
  LET s0 == strip(Get(e.msgstr_plural, 0, <<>>))
      s1 == strip(Get(e.msgstr_plural, 1, <<>>))
      need_placeholder == has_placeholder(e.msgid) \/ has_placeholder(e.msgid_plural)
      a == IF need_placeholder /\ ~has_placeholder(s0) /\ has_placeholder(s1)
           THEN s1 ELSE s0
  IN  IF a = <<>> /\ s1 # <<>> THEN s1 ELSE a

\* a fill that keeps the indices >= n
fill_without_truncate(e, n) ==
  [i \in (0..(n - 1)) \cup DOMAIN e.msgstr_plural |-> Get(e.msgstr_plural, i, <<>>)]

\* the nplurals>=2 branch: fill the missing indices, drop the ones >= n
fill_and_truncate(e, n) ==
  LET base_zero == strip(Get(e.msgstr_plural, 0, <<>>))
      base_one == strip(Get(e.msgstr_plural, 1, base_zero))
      fill_val == IF base_one # <<>> THEN base_one ELSE base_zero
  IN  [i \in 0..(n - 1) |-> Get(e.msgstr_plural, i, fill_val)]

normalize_entry(e, n) ==
  IF e.msgid_plural = <<>> THEN e
  ELSE [e EXCEPT !.msgstr = <<>>,
                 !.msgstr_plural = IF n = 1 THEN (0 :> collapse_single_form(e))
                                   ELSE fill_and_truncate(e, n)]

\* POParser._normalize_plural_entries
normalize_plural_entries(loaded, es, md, language_code) ==
  IF ~Truthy(loaded, es) THEN es
  ELSE LET n == Max(1, resolve_plural_count(loaded, es, md, language_code))
       IN  [k \in 1..Len(es) |-> normalize_entry(es[k], n)]

\* the source tokens of an entry: msgid's, then msgid_plural's, deduplicated
source_placeholders(e) ==
  LET a == extract_placeholders(e.msgid)
      b == IF e.msgid_plural # <<>> THEN extract_placeholders(e.msgid_plural) ELSE <<>>
      RECURSIVE Dedup(_, _)
      Dedup(xs, acc) == IF xs = <<>> THEN acc ELSE Dedup(Tail(xs), AppendNew(acc, Head(xs)))
  IN  Dedup(a \o b, <<>>)

ensure_placeholders_entry(e) ==
  LET src == source_placeholders(e)
  IN  IF e.msgid_plural # <<>>
      THEN [e EXCEPT !.msgstr_plural =
              [idx \in DOMAIN e.msgstr_plural |->
                 IF strip(e.msgstr_plural[idx]) # <<>>
                 THEN ensure_placeholders_by_set(e.msgstr_plural[idx], src)
                 ELSE e.msgstr_plural[idx]]]
      ELSE IF e.msgstr # <<>> /\ strip(e.msgstr) # <<>>
           THEN [e EXCEPT !.msgstr = ensure_placeholders_by_set(e.msgstr, src)]
           ELSE e

\* POParser._ensure_placeholders_all_entries
ensure_placeholders_all_entries(loaded, es) ==
  IF ~Truthy(loaded, es) THEN es
  ELSE [k \in 1..Len(es) |-> ensure_placeholders_entry(es[k])]

\* count_leading_newlines / count_trailing_newlines
count_leading_newlines(s) == RunEnd(s, 1, {LF}) - 1

RECURSIVE count_trailing_newlines(_)
count_trailing_newlines(s) ==
  IF s # <<>> /\ s[Len(s)] = LF
  THEN 1 + count_trailing_newlines(SubSeq(s, 1, Len(s) - 1))
  ELSE 0

\* '\n' * k
RECURSIVE newlines(_)
newlines(k) == IF k <= 0 THEN <<>> ELSE <<LF>> \o newlines(k - 1)

\* the leading half of align
align_leading(target, base) ==
  LET tl == count_leading_newlines(target)
      bl == count_leading_newlines(base)
  IN  IF tl < bl THEN newlines(bl - tl) \o target
      ELSE IF tl > bl THEN SubSeq(target, tl - bl + 1, Len(target))
      ELSE target

\* the trailing half of align
align_trailing(target, base) ==
  LET tt == count_trailing_newlines(target)
      bt == count_trailing_newlines(base)
  IN  IF tt < bt THEN target \o newlines(bt - tt)
      ELSE IF tt > bt THEN SubSeq(target, 1, Len(target) - (tt - bt))
      ELSE target

\* align(target, base) of _align_newline_parity
align(target, base) ==
  IF target = <<>> THEN target
  ELSE align_trailing(align_leading(target, base), base)

align_entry(e) ==
  IF e.obsolete THEN e
  ELSE IF e.msgid_plural = <<>>
       THEN (IF e.msgstr # <<>> THEN [e EXCEPT !.msgstr = align(e.msgstr, e.msgid)] ELSE e)
       ELSE [e EXCEPT !.msgstr_plural =
               [idx \in DOMAIN e.msgstr_plural |->
                  align(e.msgstr_plural[idx],
                        IF idx = 0 THEN e.msgid ELSE e.msgid_plural)]]

\* POParser._align_newline_parity (the caller handles po_file = None, where
\* the loop over self.po_file raises)
align_newline_parity(es) == [k \in 1..Len(es) |-> align_entry(es[k])]

----------------------------------------------------------------------------
(* Linearizer: export_untranslated_to_txt and get_untranslated_texts.      *)
(* untranslated_entries is a list of references to entries of po_file: a   *)
(* sequence of indices into es.  plural_entries_map is the side table      *)
(* built by load_po_file, one record per untranslated entry.               *)

\* a _one_line that escapes "\n" only
export_one_line_lf_only(s) == replace(s, <<LF>>, <<BS, "n">>)

\* _one_line of export_untranslated_to_txt: line breaks become backslash, n
export_one_line(s) ==
  replace(replace(replace(s, <<CR, LF>>, <<LF>>), <<CR>>, <<LF>>), <<LF>>, <<BS, "n">>)

NEWLINE_PLACEHOLDER ==
  <<"<", "N", "E", "W", "L", "I", "N", "E", "_", "P", "L", "A", "C", "E", "H",
    "O", "L", "D", "E", "R", "_", "1", "1", "4", "5", "1", "4", ">">>

\* _one_line of get_untranslated_texts
texts_one_line(s) ==
  replace(replace(replace(s, <<CR, LF>>, <<LF>>), <<CR>>, <<LF>>), <<LF>>, NEWLINE_PLACEHOLDER)

\* the source texts one entry contributes: msgid, msgid_plural, then
\* msgid_plural again for _ in range(2, plural_count)
entry_units(e, is_plural, plural_count) ==
  IF is_plural
  THEN <<e.msgid, e.msgid_plural>>
       \o (IF plural_count > 2 THEN [k \in 1..(plural_count - 2) |-> e.msgid_plural]
           ELSE <<>>)
  ELSE <<e.msgid>>

RECURSIVE linear_units(_, _, _, _, _)
linear_units(es, ue, pem, plural_count, i) ==
  IF i > Len(ue) THEN <<>>
  ELSE entry_units(es[ue[i]], pem[i].is_plural, plural_count)
       \o linear_units(es, ue, pem, plural_count, i + 1)

\* POParser.get_untranslated_texts
get_untranslated_texts(loaded, es, md, ue, pem) ==
  LET units == linear_units(es, ue, pem, get_plural_count_from_po(loaded, es, md), 1)
  IN  [k \in 1..Len(units) |-> texts_one_line(units[k])]

\* f.write(f"{line_number}. {_one_line(text)}\n") for every unit
RECURSIVE write_numbered(_, _)
write_numbered(units, line_number) ==
  IF line_number > Len(units) THEN <<>>
  ELSE str(line_number) \o <<".", " ">> \o export_one_line(units[line_number]) \o <<LF>>
       \o write_numbered(units, line_number + 1)

\* POParser.export_untranslated_to_txt: [ok, content]; nothing is written
\* when there is no untranslated entry
export_untranslated_to_txt(loaded, es, md, ue, pem) ==
  IF ue = <<>> THEN [ok |-> FALSE, content |-> <<>>]
  ELSE [ok |-> TRUE,
        content |-> write_numbered(
          linear_units(es, ue, pem, get_plural_count_from_po(loaded, es, md), 1), 1)]

----------------------------------------------------------------------------
(* Reconciler: import_translations_from_txt and _parse_translations.       *)

\* re.match(r'^\s*(\d+)\. ', line): the length of the matched prefix, 0 if none
numbered_prefix(line) ==
  LET w == RunEnd(line, 1, Whitespace)
      d == RunEnd(line, w, Digits)
  IN  IF d > w /\ At(line, d) = "." /\ At(line, d + 1) = " " THEN d + 1 ELSE 0

\* a clean_line that strips the prefix and leaves the escape token as it is
clean_line_keeps_escape(line) ==
  SubSeq(line, numbered_prefix(line) + 1, Len(line))

\* clean_line of _parse_translations
clean_line(line) ==
  LET k == numbered_prefix(line)
  IN  replace(SubSeq(line, k + 1, Len(line)), <<BS, "n">>, <<LF>>)

\* the record appended for a pluralizable entry
plural_record(plural_forms) ==
  [singular |-> Get(plural_forms, 0, <<>>),
   plural |-> Get(plural_forms, 1, Get(plural_forms, 0, <<>>)),
   plural_forms |-> plural_forms]

\* the lines an entry needs are there: the negation of the two raise guards
enough_lines(is_plural, translation_index, plural_count, n_lines) ==
  IF is_plural THEN ~(translation_index + plural_count > n_lines)
  ELSE ~(translation_index >= n_lines)

\* the loop of _parse_translations from entry entry_index (1-based here) with
\* translation_index lines consumed; ok = FALSE stands for the ValueError
RECURSIVE parse_loop(_, _, _, _, _, _)
parse_loop(translations, pem, plural_count, entry_index, translation_index, parsed_data) ==
  IF entry_index > Len(pem) THEN [ok |-> TRUE, data |-> parsed_data]
  ELSE IF ~enough_lines(pem[entry_index].is_plural, translation_index,
                        plural_count, Len(translations))
       THEN [ok |-> FALSE, data |-> parsed_data]
  ELSE IF pem[entry_index].is_plural
       THEN parse_loop(translations, pem, plural_count, entry_index + 1,
              translation_index + plural_count,
              Append(parsed_data,
                plural_record([i \in 0..(plural_count - 1) |->
                                 clean_line(translations[translation_index + i + 1])])))
       ELSE parse_loop(translations, pem, plural_count, entry_index + 1,
              translation_index + 1,
              Append(parsed_data,
                [text |-> clean_line(translations[translation_index + 1])]))

\* POParser._parse_translations (plural_count is _get_plural_count_from_po())
parse_translations(translations, pem, plural_count) ==
  parse_loop(translations, pem, plural_count, 1, 0, <<>>)

IsBlankLine(ln) == strip(ln) = <<>>

\* the plain ("one text per line") loop of import_translations_from_txt; on a
\* shortfall at an ordinary entry the blank lines are filtered out once and
\* the index is tested again
RECURSIVE parse_simple_loop(_, _, _, _, _, _)
parse_simple_loop(simple_lines, pem, plural_count, i, idx, parsed_simple) ==
  IF i > Len(pem) THEN [ok |-> TRUE, data |-> parsed_simple]
  ELSE IF pem[i].is_plural
       THEN IF idx + plural_count > Len(simple_lines)
            THEN [ok |-> FALSE, data |-> parsed_simple]
            ELSE parse_simple_loop(simple_lines, pem, plural_count, i + 1,
                   idx + plural_count,
                   Append(parsed_simple,
                     plural_record([j \in 0..(plural_count - 1) |->
                                      simple_lines[idx + j + 1]])))
       ELSE LET filtered_lines == SelectSeq(simple_lines, LAMBDA ln : ~IsBlankLine(ln))
                lines2 == IF idx >= Len(simple_lines) THEN filtered_lines ELSE simple_lines
            IN  IF idx >= Len(simple_lines)
                   /\ (Len(filtered_lines) = Len(simple_lines) \/ idx >= Len(filtered_lines))
                THEN [ok |-> FALSE, data |-> parsed_simple]
                ELSE parse_simple_loop(lines2, pem, plural_count, i + 1, idx + 1,
                       Append(parsed_simple, [text |-> lines2[idx + 1]]))

parse_simple(lines, pem, plural_count) ==
  parse_simple_loop(lines, pem, plural_count, 1, 0, <<>>)

\* an apply step that keeps the forms the record does not name
apply_translation_merging(e, is_plural, translation_data) ==
  IF is_plural
  THEN [e EXCEPT !.msgstr_plural = translation_data.plural_forms @@ e.msgstr_plural,
                 !.msgstr = <<>>]
  ELSE [e EXCEPT !.msgstr = translation_data.text]

\* the translation a parsed record gives entry e
apply_translation(e, is_plural, translation_data) ==
  IF is_plural
  THEN IF "plural_forms" \in DOMAIN translation_data
       THEN [e EXCEPT !.msgstr_plural = translation_data.plural_forms, !.msgstr = <<>>]
       ELSE [e EXCEPT !.msgstr_plural =
                        (0 :> translation_data.singular) @@ (1 :> translation_data.plural),
                      !.msgstr = <<>>]
  ELSE [e EXCEPT !.msgstr = IF "text" \in DOMAIN translation_data
                            THEN translation_data.text ELSE <<>>]

\* the apply loop: parsed record i goes to untranslated_entries[i]
RECURSIVE apply_translations(_, _, _, _, _)
apply_translations(es, ue, pem, parsed, i) ==
  IF i > Len(parsed) THEN es
  ELSE apply_translations(
         [es EXCEPT ![ue[i]] = apply_translation(es[ue[i]], pem[i].is_plural, parsed[i])],
         ue, pem, parsed, i + 1)

IsNumbered(line) == numbered_prefix(line) # 0

\* the mode and the decoded stream of a file: every line with a numbered
\* prefix when there is one, else every line
numbered_translations(content) == SelectSeq(splitlines(read(content)), IsNumbered)

\* a parse step that groups numbered lines by the language's count too
parse_file_by_language(content, loaded, es, md, pem, language_code) ==
  LET lines == splitlines(read(content))
      numbered == SelectSeq(lines, IsNumbered)
  IN  IF Len(numbered) > 0
      THEN parse_translations(numbered, pem,
                              resolve_plural_count(loaded, es, md, language_code))
      ELSE parse_simple(lines, pem, resolve_plural_count(loaded, es, md, language_code))

\* the parse step of import_translations_from_txt
parse_file(content, loaded, es, md, pem, language_code) ==
  LET lines == splitlines(read(content))
      numbered == SelectSeq(lines, IsNumbered)
  IN  IF Len(numbered) > 0
      THEN parse_translations(numbered, pem, get_plural_count_from_po(loaded, es, md))
      ELSE parse_simple(lines, pem, resolve_plural_count(loaded, es, md, language_code))

\* an import that writes each parsed record before the stream is validated
import_translations_unvalidated(file, language_code, loaded, es, md, ue, pem) ==
  LET parsed == parse_file(file.content, loaded, es, md, pem, language_code)
  IN  IF ~file.exists \/ ~loaded
      THEN [ok |-> FALSE, entries |-> es, parsed |-> <<>>]
      ELSE [ok |-> parsed.ok /\ Len(parsed.data) = Len(ue),
            entries |-> apply_translations(es, ue, pem, parsed.data, 1),
            parsed |-> parsed.data]

\* POParser.import_translations_from_txt: [ok, entries, parsed], parsed being
\* the parsed_translations of a successful call.  Every failure
\* (missing file, ValueError of the parse, count check, the TypeError of
\* _align_newline_parity when no catalog is loaded) returns False.
import_translations_from_txt(file, language_code, loaded, es, md, ue, pem) ==
  LET parsed == parse_file(file.content, loaded, es, md, pem, language_code)
  IN  IF ~file.exists \/ ~parsed.ok \/ Len(parsed.data) # Len(ue) \/ ~loaded
      THEN [ok |-> FALSE, entries |-> es, parsed |-> <<>>]
      ELSE [ok |-> TRUE,
            entries |-> normalize_plural_entries(loaded,
                          align_newline_parity(apply_translations(es, ue, pem, parsed.data, 1)),
                          md, language_code),
            parsed |-> parsed.data]

----------------------------------------------------------------------------
(* save_translated_po *)

\* POParser._update_metadata: Language, and Plural-Forms for a known code
update_metadata(md, language_code) ==
  IF language_code = "" THEN md
  ELSE [md EXCEPT !.Language = language_code,
                  !.PluralForms = IF language_code \in DOMAIN LANGUAGE_CONFIG
                                  THEN <<LANGUAGE_CONFIG[language_code]>>
                                  ELSE @]

\* the three passes in the order save_translated_po runs them
repair_passes(loaded, es, md, language_code) ==
  align_newline_parity(
    ensure_placeholders_all_entries(loaded,
      normalize_plural_entries(loaded, es, md, language_code)))

----------------------------------------------------------------------------
(* load_po_file *)

\* the catalog's statistics: records whose msgid is blank are skipped, a
\* pluralizable entry is translated when some form is non-blank, any other
\* entry when its msgstr is non-blank
get_translation_info(loaded, es) ==
  IF ~Truthy(loaded, es) THEN [total |-> 0, translated |-> 0, untranslated |-> 0]
  ELSE
    LET counted == SelectSeq(es, LAMBDA e : strip(e.msgid) # <<>>)
        done(e) ==
          IF e.msgid_plural # <<>>
          THEN \E i \in DOMAIN e.msgstr_plural : strip(e.msgstr_plural[i]) # <<>>
          ELSE strip(e.msgstr) # <<>>
    IN  [total |-> Len(counted),
         translated |-> Len(SelectSeq(counted, LAMBDA e : done(e))),
         untranslated |-> Len(SelectSeq(counted, LAMBDA e : ~done(e)))]

\* [entry for entry in self.po_file if entry.msgid.strip()], as indices
untranslated_of(es) ==
  SelectSeq([k \in 1..Len(es) |-> k], LAMBDA k : strip(es[k].msgid) # <<>>)

\* a side table with one record per record of the catalog, blank sources
\* included
plural_map_of_catalog(es) ==
  [i \in 1..Len(es) |->
     [msgid |-> es[i].msgid,
      msgid_plural |-> es[i].msgid_plural,
      is_plural |-> es[i].msgid_plural # <<>>]]

\* the plural side table: one record per untranslated entry
plural_map_of(es) ==
  LET ue == untranslated_of(es)
  IN  [i \in 1..Len(ue) |->
         [msgid |-> es[ue[i]].msgid,
          msgid_plural |-> es[ue[i]].msgid_plural,
          is_plural |-> es[ue[i]].msgid_plural # <<>>]]

----------------------------------------------------------------------------
(* State *)

VARIABLES
  po_loaded,             \* self.po_file is not None
  entries,               \* the entries of self.po_file, in catalog order
  metadata,              \* self.po_file.metadata
  untranslated_entries,  \* self.untranslated_entries, as indices into entries
  plural_entries_map,    \* self.plural_entries_map
  txt_file,              \* the exported text file: [exists, content]
  last_call,             \* history: the last completed call, its arguments and,
                         \* for an import, its parsed_translations
  pre_entries,           \* history: entries when the last call started
  norm_count,            \* history: <<n>> once a normalization to n forms ran
  calls,                 \* history: the number of calls made
  export_format,         \* TextProcessor.export_format
  out_file,              \* the file export_texts_to_file opened last
  tp_call,               \* history: the last call made on the TextProcessor
  current_po_file,       \* the window's current_po_file is set
  workers,               \* the background threads of the window that run
  held,                  \* the entry objects self.untranslated_entries holds
  cli                    \* history: the last run of the command line

\* the state of the TextProcessor and of the window
other_vars == <<export_format, out_file, tp_call, current_po_file, workers, held, cli>>

vars ==
  <<po_loaded, entries, metadata, untranslated_entries, plural_entries_map,
    txt_file, last_call, pre_entries, norm_count, calls, other_vars>>

\* calls per behaviour
MaxCalls == 3
\* how many trailing lines a translator may lose from the exported file
MaxDropped == 2

NoFile == [exists |-> FALSE, content |-> <<>>]
File(content) == [exists |-> TRUE, content |-> content]

Call(op, language_code, file, ok) ==
  [op |-> op, language_code |-> language_code, file |-> file, ok |-> ok,
   repeat |-> last_call.op = op /\ last_call.language_code = language_code
              /\ last_call.file = file,
   parsed |-> <<>>]

\* the language_code arguments tried: none, a one-form and a three-form
\* language of LANGUAGE_CONFIG, and a code the table does not have
LanguageCodes == {"", "zh_CN", "ru_RU", "xx_XX"}

\* self.untranslated_entries holds objects of the current self.po_file
HeldCurrent == [current |-> TRUE, entries |-> <<>>]

\* a new TextProcessor, a new window
\* what a run of the command line did: the catalog read, the texts the export
\* step wrote, the count handed to validate_translation_count, the texts
\* import_texts_from_file returned, the verdict of the validation, and what
\* run_cli returned
CliRun(input, exported, required, translations, validated, valid, result) ==
  [input |-> input, exported |-> exported, required |-> required,
   translations |-> translations, validated |-> validated, valid |-> valid,
   result |-> result]

NoRun == CliRun(<<>>, <<>>, 0, <<>>, FALSE, FALSE, TRUE)

InitOther ==
  /\ export_format = "numbered"
  /\ out_file = NoFile
  /\ tp_call = [op |-> "init", format_type |-> "", texts |-> <<>>,
                add_context |-> FALSE, raised |-> FALSE, ok |-> TRUE]
  /\ current_po_file = FALSE
  /\ workers = {}
  /\ held = HeldCurrent
  /\ cli = NoRun

----------------------------------------------------------------------------
(* Catalogs a session loads *)

NonPlural(msgid, msgstr) ==
  [msgid |-> msgid, msgid_plural |-> <<>>, msgstr |-> msgstr,
   msgstr_plural |-> <<>>, obsolete |-> FALSE]

Plural(msgid, msgid_plural, msgstr_plural) ==
  [msgid |-> msgid, msgid_plural |-> msgid_plural, msgstr |-> <<>>,
   msgstr_plural |-> msgstr_plural, obsolete |-> FALSE]

\* leading, internal and trailing line breaks; already translated
EntryLines == NonPlural(<<LF, "a", LF, "b", LF>>, <<"o">>)
\* a literal backslash followed by n
EntryBackslash == NonPlural(<<"C", BS, "n">>, <<>>)
\* a carriage return as the internal line break
EntryCR == NonPlural(<<"a", CR, "b">>, <<>>)
\* a pluralizable entry translated for a four-form language
EntryPlural ==
  Plural(<<"%", "d", " ", "f">>, <<"%", "d", " ", "f", "s">>,
         (0 :> <<"p">>) @@ (1 :> <<"q">>) @@ (2 :> <<"r">>) @@ (3 :> <<"s">>))
\* a pluralizable entry whose source texts end with a line break; untranslated
EntryPluralLines == Plural(<<"%", "d", LF>>, <<"%", "d", "s", LF>>, <<>>)
\* a record whose msgid is blank: not among the untranslated entries
EntryBlank == NonPlural(<<" ">>, <<"h">>)

SessionEntryLists ==
  { <<>>, <<EntryLines>>, <<EntryBackslash>>, <<EntryCR>>, <<EntryPlural>>,
    <<EntryBlank, EntryLines>>, <<EntryLines, EntryPlural>>,
    <<EntryPlural, EntryLines>>, <<EntryPlural, EntryPlural>>,
    <<EntryLines, EntryBackslash>>, <<EntryPlural, EntryBlank, EntryLines>>,
    <<EntryPluralLines>> }

\* the Plural-Forms header: absent, nplurals=1, nplurals=3
DeclaredPluralForms == {<<>>, <<1>>, <<3>>}

SessionCatalogs ==
  {[entries |-> es, metadata |-> [PluralForms |-> pf, Language |-> ""]] :
     es \in SessionEntryLists, pf \in DeclaredPluralForms}

\* the catalogs loaded over an already loaded one
ReloadCatalogs ==
  {[entries |-> es, metadata |-> [PluralForms |-> <<>>, Language |-> ""]] :
     es \in {<<EntryLines>>, <<EntryPlural, EntryLines>>}}

----------------------------------------------------------------------------
(* The text file handed to import: the exported file as the translator      *)
(* returns it.                                                             *)

RECURSIVE write_lines(_)
write_lines(lines) ==
  IF lines = <<>> THEN <<>> ELSE Head(lines) \o <<LF>> \o write_lines(Tail(lines))

\* the file without its last k lines
DropLines(content, k) ==
  LET lines == splitlines(content)
  IN  write_lines(SubSeq(lines, 1, Len(lines) - k))

\* the file with one more numbered line at the end
ExtraLine(content) == content \o <<"9", ".", " ", "z", LF>>

\* the file with the "<n>. " prefixes removed: one text per line
Unnumbered(content) ==
  LET lines == splitlines(content)
  IN  write_lines([k \in 1..Len(lines) |->
                     SubSeq(lines[k], numbered_prefix(lines[k]) + 1, Len(lines[k]))])

\* the numbered file with every prefix rewritten to " 7. "
Renumbered(content) ==
  LET lines == splitlines(content)
  IN  write_lines([k \in 1..Len(lines) |->
                     <<" ", "7", ".", " ">>
                     \o SubSeq(lines[k], numbered_prefix(lines[k]) + 1, Len(lines[k]))])

\* the file with a line without prefix, and a blank line, after its first line
Interleaved(content, line) ==
  LET lines == splitlines(content)
  IN  IF lines = <<>> THEN write_lines(<<line>>)
      ELSE write_lines(<<Head(lines), line>> \o Tail(lines))

\* the exported file as a translator edits it
EditedFiles(content) ==
  {File(c) : c \in {Renumbered(content),
                    Interleaved(content, <<"z">>),
                    Unnumbered(content),
                    Interleaved(Unnumbered(content), <<>>),
                    Interleaved(Unnumbered(content), <<" ">>)}}

ReturnedFiles(content) ==
  LET numbered == {DropLines(content, k) : k \in 0..MaxDropped} \cup {ExtraLine(content)}
  IN  {File(c) : c \in numbered \cup {Unnumbered(c) : c \in numbered}}

----------------------------------------------------------------------------
(* Session: the calls a caller makes on one POParser *)

Init ==
  /\ po_loaded = FALSE
  /\ entries = <<>>
  /\ metadata = [PluralForms |-> <<>>, Language |-> ""]
  /\ untranslated_entries = <<>>
  /\ plural_entries_map = <<>>
  /\ txt_file = NoFile
  /\ last_call = [op |-> "init", language_code |-> "", file |-> NoFile,
                  ok |-> TRUE, repeat |-> FALSE, parsed |-> <<>>]
  /\ pre_entries = <<>>
  /\ norm_count = <<>>
  /\ calls = 0
  /\ InitOther

\* load_po_file on a readable catalog file
LoadPoFile(cat) ==
  /\ calls < MaxCalls
  /\ po_loaded' = TRUE
  /\ entries' = cat.entries
  /\ metadata' = cat.metadata
  /\ untranslated_entries' = untranslated_of(cat.entries)
  /\ plural_entries_map' = plural_map_of(cat.entries)
  /\ last_call' = Call("load", "", NoFile, TRUE)
  /\ pre_entries' = entries
  /\ norm_count' = <<>>
  /\ calls' = calls + 1
  /\ UNCHANGED other_vars
  /\ UNCHANGED txt_file

\* a failing load that has already dropped the catalog of the session
LoadPoFileFailsEmptied ==
  /\ calls < MaxCalls
  /\ po_loaded' = FALSE
  /\ entries' = <<>>
  /\ untranslated_entries' = <<>>
  /\ plural_entries_map' = <<>>
  /\ last_call' = Call("load", "", NoFile, FALSE)
  /\ pre_entries' = entries
  /\ calls' = calls + 1
  /\ UNCHANGED other_vars
  /\ UNCHANGED <<metadata, txt_file, norm_count>>

\* load_po_file on a missing or malformed file: the exception is raised
\* before the first assignment
LoadPoFileFails ==
  /\ calls < MaxCalls
  /\ last_call' = Call("load", "", NoFile, FALSE)
  /\ pre_entries' = entries
  /\ calls' = calls + 1
  /\ UNCHANGED other_vars
  /\ UNCHANGED <<po_loaded, entries, metadata, untranslated_entries,
                 plural_entries_map, txt_file, norm_count>>

Load ==
  \/ \E cat \in (IF po_loaded THEN ReloadCatalogs ELSE SessionCatalogs) : LoadPoFile(cat)
  \/ LoadPoFileFails

\* export_untranslated_to_txt
ExportUntranslatedToTxt ==
  LET r == export_untranslated_to_txt(po_loaded, entries, metadata,
                                      untranslated_entries, plural_entries_map)
  IN  /\ calls < MaxCalls
      /\ txt_file' = IF r.ok THEN File(r.content) ELSE txt_file
      /\ last_call' = Call("export", "", NoFile, r.ok)
      /\ pre_entries' = entries
      /\ calls' = calls + 1
  /\ UNCHANGED other_vars
      /\ UNCHANGED <<po_loaded, entries, metadata, untranslated_entries,
                     plural_entries_map, norm_count>>

\* import_translations_from_txt(txt_path, language_code)
ImportTranslationsFromTxt(file, language_code) ==
  LET r == import_translations_from_txt(file, language_code, po_loaded, entries,
             metadata, untranslated_entries, plural_entries_map)
  IN  /\ calls < MaxCalls
      /\ entries' = r.entries
      /\ last_call' =
           [Call("import", language_code, file, r.ok) EXCEPT !.parsed = r.parsed]
      /\ pre_entries' = entries
      /\ norm_count' =
           IF r.ok /\ Truthy(po_loaded, entries)
           THEN <<Max(1, resolve_plural_count(po_loaded, entries, metadata, language_code))>>
           ELSE norm_count
      /\ calls' = calls + 1
  /\ UNCHANGED other_vars
      /\ UNCHANGED <<po_loaded, metadata, untranslated_entries,
                     plural_entries_map, txt_file>>

Import ==
  /\ calls < MaxCalls
  /\ \E file \in (IF txt_file.exists THEN ReturnedFiles(txt_file.content) ELSE {NoFile}) :
       \E language_code \in LanguageCodes :
         ImportTranslationsFromTxt(file, language_code)

\* save_translated_po(output_path, language_code): the three passes, the
\* metadata update, the write
SaveTranslatedPo(language_code) ==
  /\ calls < MaxCalls
  /\ IF Truthy(po_loaded, entries)
     THEN /\ entries' = repair_passes(po_loaded, entries, metadata, language_code)
          /\ metadata' = update_metadata(metadata, language_code)
          /\ norm_count' =
               <<Max(1, resolve_plural_count(po_loaded, entries, metadata, language_code))>>
          /\ last_call' = Call("save", language_code, NoFile, TRUE)
     ELSE /\ UNCHANGED <<entries, metadata, norm_count>>
          /\ last_call' = Call("save", language_code, NoFile, FALSE)
  /\ pre_entries' = entries
  /\ calls' = calls + 1
  /\ UNCHANGED other_vars
  /\ UNCHANGED <<po_loaded, untranslated_entries, plural_entries_map, txt_file>>

Save == \E language_code \in LanguageCodes : SaveTranslatedPo(language_code)

Next == Load \/ ExportUntranslatedToTxt \/ Import \/ Save

Spec == Init /\ [][Next]_vars

\* the same session with the edited files
ImportEdited ==
  /\ calls < MaxCalls
  /\ \E file \in (IF txt_file.exists THEN EditedFiles(txt_file.content) ELSE {NoFile}) :
       \E language_code \in LanguageCodes :
         ImportTranslationsFromTxt(file, language_code)

NextEdited == Load \/ ExportUntranslatedToTxt \/ ImportEdited \/ Save

SpecEdited == Init /\ [][NextEdited]_vars

----------------------------------------------------------------------------
(* Passes: the three repair passes called one at a time, and save, on a     *)
(* loaded one-entry catalog whose translation values are arbitrary.         *)

\* (msgid, msgid_plural) of the pluralizable entries
PassPluralSources ==
  { <<(<<LF, "%", "s">>), (<<"%", "s", "s", LF>>)>>,
    <<(<<"{", "0", "}">>), (<<"{", "0", "}", "s">>)>>,
    <<(<<"%", "(", "a", ")", "s">>), (<<"%", "(", "a", ")", "s">>)>> }

\* msgid of the entries without a plural
PassSources == { <<"H", LF>>, <<"%", "d", "?">> }

\* translation values
PassValues ==
  { <<>>, <<" ">>, <<"x">>, <<"x", LF>>, <<"%", "s", "x">>, <<"{", "0", "}">>, <<LF>>,
    <<"%", "(">> }

\* the msgstr_plural dicts: forms 0 and 1 present or not, forms 2 and 3 too
PassForms ==
  LET absent == <<"absent">>
      low == [{0, 1} -> PassValues \cup {absent}]
      Keep(f) == [i \in {j \in {0, 1} : f[j] # absent} |-> f[i]]
      high == (2 :> <<"e">>) @@ (3 :> <<"e">>)
  IN  {Keep(f) : f \in low} \cup {Keep(f) @@ high : f \in low}

PassEntries ==
  {Plural(src[1], src[2], forms) : src \in PassPluralSources, forms \in PassForms}
  \cup {[NonPlural(src, v) EXCEPT !.obsolete = o] :
          src \in PassSources, v \in PassValues, o \in BOOLEAN}

InitPasses ==
  /\ po_loaded = TRUE
  /\ \E e \in PassEntries : entries = <<e>>
  /\ metadata = [PluralForms |-> <<>>, Language |-> ""]
  /\ untranslated_entries = untranslated_of(entries)
  /\ plural_entries_map = plural_map_of(entries)
  /\ txt_file = NoFile
  /\ last_call = [op |-> "load", language_code |-> "", file |-> NoFile,
                  ok |-> TRUE, repeat |-> FALSE, parsed |-> <<>>]
  /\ pre_entries = <<>>
  /\ norm_count = <<>>
  /\ calls = 0
  /\ InitOther

\* _normalize_plural_entries(language_code)
NormalizePluralEntries(language_code) ==
  /\ calls < MaxCalls
  /\ entries' = normalize_plural_entries(po_loaded, entries, metadata, language_code)
  /\ norm_count' =
       IF Truthy(po_loaded, entries)
       THEN <<Max(1, resolve_plural_count(po_loaded, entries, metadata, language_code))>>
       ELSE norm_count
  /\ last_call' = Call("normalize", language_code, NoFile, TRUE)
  /\ pre_entries' = entries
  /\ calls' = calls + 1
  /\ UNCHANGED other_vars
  /\ UNCHANGED <<po_loaded, metadata, untranslated_entries, plural_entries_map, txt_file>>

Normalize == \E language_code \in LanguageCodes : NormalizePluralEntries(language_code)

\* _ensure_placeholders_all_entries()
EnsurePlaceholdersAllEntries ==
  /\ calls < MaxCalls
  /\ entries' = ensure_placeholders_all_entries(po_loaded, entries)
  /\ last_call' = Call("placeholders", "", NoFile, TRUE)
  /\ pre_entries' = entries
  /\ calls' = calls + 1
  /\ UNCHANGED other_vars
  /\ UNCHANGED <<po_loaded, metadata, untranslated_entries, plural_entries_map,
                 txt_file, norm_count>>

\* _align_newline_parity()
AlignNewlineParity ==
  /\ calls < MaxCalls
  /\ po_loaded
  /\ entries' = align_newline_parity(entries)
  /\ last_call' = Call("newlines", "", NoFile, TRUE)
  /\ pre_entries' = entries
  /\ calls' = calls + 1
  /\ UNCHANGED other_vars
  /\ UNCHANGED <<po_loaded, metadata, untranslated_entries, plural_entries_map,
                 txt_file, norm_count>>

NextPasses == Normalize \/ EnsurePlaceholdersAllEntries \/ AlignNewlineParity \/ Save

SpecPasses == InitPasses /\ [][NextPasses]_vars

----------------------------------------------------------------------------
(* Properties of the session *)

ImportCalled == last_call.op = "import" /\ last_call.file.exists /\ po_loaded

\* the file of the last import was written in the numbered format
NumberedMode == Len(numbered_translations(last_call.file.content)) > 0

\* the lines the last import decodes: the numbered lines in numbered mode,
\* every line in plain mode
StreamLines ==
  IF NumberedMode THEN numbered_translations(last_call.file.content)
  ELSE splitlines(read(last_call.file.content))

\* the form count the last import groups a pluralizable entry by
GroupCount ==
  IF NumberedMode THEN get_plural_count_from_po(po_loaded, entries, metadata)
  ELSE resolve_plural_count(po_loaded, entries, metadata, last_call.language_code)

RECURSIVE SumSeq(_)
SumSeq(xs) == IF xs = <<>> THEN 0 ELSE Head(xs) + SumSeq(Tail(xs))

\* the lines the catalog requires of the last import
RequiredLines ==
  SumSeq([i \in 1..Len(plural_entries_map) |->
            IF plural_entries_map[i].is_plural THEN GroupCount ELSE 1])

\* C1: an import of a stream with fewer lines than the catalog requires (one
\* fewer in particular) fails, in numbered and in plain mode, and a failed
\* import leaves msgstr and msgstr_plural of every entry as they were: no
\* entry is written before the whole stream has been validated.
C1_MismatchRejection ==
  ImportCalled =>
    /\ Len(StreamLines) < RequiredLines => ~last_call.ok
    /\ ~last_call.ok => entries = pre_entries

\* a numbered stream exactly one line short of a catalog with a pluralizable
\* entry and an already translated entry was rejected
C1_Witness ==
  /\ ImportCalled /\ NumberedMode
  /\ Len(StreamLines) + 1 = RequiredLines
  /\ ~last_call.ok
  /\ \E k \in 1..Len(entries) : entries[k].msgid_plural # <<>>
  /\ \E k \in 1..Len(entries) : entries[k].msgstr # <<>>

\* the declared form count of the catalog, 2 when there is no header
DeclaredFormCount == IF metadata.PluralForms = <<>> THEN 2 ELSE metadata.PluralForms[1]

\* sum over the non-header entries of form_count if pluralizable else 1
ExpectedUnitCount ==
  SumSeq([i \in 1..Len(untranslated_entries) |->
            IF entries[untranslated_entries[i]].msgid_plural # <<>>
            THEN DeclaredFormCount ELSE 1])

\* the units the last import decoded: numbered lines, or non-blank lines
DecodedUnits ==
  IF NumberedMode THEN StreamLines
  ELSE SelectSeq(StreamLines, LAMBDA ln : ~IsBlankLine(ln))

LinearizerCount ==
  Len(get_untranslated_texts(po_loaded, entries, metadata,
                             untranslated_entries, plural_entries_map))

\* C2: an import whose decoded unit count differs from the number of lines
\* the Linearizer produces for the loaded catalog, in either direction, fails
\* and leaves the catalog unmodified.
C2_CountMismatch ==
  (ImportCalled /\ Len(DecodedUnits) # LinearizerCount) =>
    (~last_call.ok /\ entries = pre_entries)

\* the exported file is the export of the catalog as it was before the last call
ExportOfCatalog ==
  LET r == export_untranslated_to_txt(po_loaded, pre_entries, metadata,
                                      untranslated_entries, plural_entries_map)
  IN  r.ok /\ txt_file = File(r.content)

\* C3: for a catalog without pluralizable entries, importing the unedited
\* export succeeds and leaves msgstr of every exported entry equal to its msgid.
C3_RoundTrip ==
  (/\ ImportCalled
   /\ last_call.file = txt_file
   /\ ExportOfCatalog
   /\ \A k \in 1..Len(entries) : entries[k].msgid_plural = <<>>)
  => /\ last_call.ok
     /\ \A i \in 1..Len(untranslated_entries) :
          entries[untranslated_entries[i]].msgstr = entries[untranslated_entries[i]].msgid

\* the number of "\n" line terminators of a file
LineCount(content) == Len(SelectSeq(content, LAMBDA c : c = LF))

\* C4: for a loaded catalog with a declared form count in 1..6 or none, the
\* Linearizer emits sum(form_count if pluralizable else 1) units, as texts
\* and as lines of the exported file.
C4_CountInvariant ==
  (po_loaded /\ DeclaredFormCount \in 1..6) =>
    /\ LinearizerCount = ExpectedUnitCount
    /\ (last_call.op = "export" /\ last_call.ok)
         => LineCount(txt_file.content) = ExpectedUnitCount

\* a text with "\r\n", "\r" and "\n" each replaced by backslash, n
RECURSIVE EscapeBreaks(_)
EscapeBreaks(s) ==
  IF s = <<>> THEN <<>>
  ELSE IF Len(s) >= 2 /\ s[1] = CR /\ s[2] = LF
       THEN <<BS, "n">> \o EscapeBreaks(SubSeq(s, 3, Len(s)))
  ELSE IF s[1] \in {CR, LF} THEN <<BS, "n">> \o EscapeBreaks(Tail(s))
  ELSE <<s[1]>> \o EscapeBreaks(Tail(s))

\* the file cut at its "\n" terminators
RECURSIVE CutLines(_, _)
CutLines(content, cur) ==
  IF content = <<>> THEN (IF cur = <<>> THEN <<>> ELSE <<cur>>)
  ELSE IF Head(content) = LF THEN <<cur>> \o CutLines(Tail(content), <<>>)
  ELSE CutLines(Tail(content), Append(cur, Head(content)))

\* the source texts in traversal order, before escaping
ExportedUnits ==
  linear_units(entries, untranslated_entries, plural_entries_map,
               get_plural_count_from_po(po_loaded, entries, metadata), 1)

\* C5: the exported file holds one line per unit: line k is "k. " followed by
\* the k-th source text with every line break escaped, k = 1..N without gaps,
\* no line break is left inside a line, and the line count is the unit count.
C5_OneLinePerUnit ==
  (last_call.op = "export" /\ last_call.ok) =>
    LET lines == CutLines(txt_file.content, <<>>)
    IN  /\ LineCount(txt_file.content) = Len(ExportedUnits)
        /\ Len(lines) = Len(ExportedUnits)
        /\ Len(splitlines(read(txt_file.content))) = Len(ExportedUnits)
        /\ \A k \in 1..Len(lines) :
             /\ lines[k] = str(k) \o <<".", " ">> \o EscapeBreaks(ExportedUnits[k])
             /\ \A j \in 1..Len(lines[k]) : lines[k][j] \notin {LF, CR}

\* an export of three or more units, one of them with line breaks inside
C5_Witness ==
  /\ last_call.op = "export" /\ last_call.ok
  /\ Len(ExportedUnits) >= 3
  /\ \E k \in 1..Len(ExportedUnits) :
       \E j \in 2..(Len(ExportedUnits[k]) - 1) : ExportedUnits[k][j] \in {LF, CR}

----------------------------------------------------------------------------
(* Properties of the passes *)

PassOps == {"normalize", "placeholders", "newlines", "save"}

\* C6: a pass, or the sequence save runs, called a second time with the same
\* language code right after the first, changes no msgstr and no
\* msgstr_plural.
C6_Idempotent ==
  (last_call.op \in PassOps /\ last_call.repeat) => entries = pre_entries

IsPlural(e) == e.msgid_plural # <<>>

\* C7: once a normalization to n >= 1 forms has run, every pluralizable entry
\* has msgstr_plural keys exactly 0..n-1 and an empty msgstr, after the
\* normalization, after later placeholder and newline passes, and at save.
C7_FormKeys ==
  norm_count # <<>> =>
    /\ norm_count[1] >= 1
    /\ \A k \in 1..Len(entries) :
         IsPlural(entries[k]) =>
           /\ DOMAIN entries[k].msgstr_plural = 0..(norm_count[1] - 1)
           /\ entries[k].msgstr = <<>>

\* a save to one form of an entry that had forms 0..3, and a newline pass on
\* an entry normalized to three forms
C7_Witness ==
  /\ norm_count # <<>>
  /\ IsPlural(entries[1])
  /\ \/ /\ last_call.op = "save" /\ norm_count = <<1>>
        /\ 3 \in DOMAIN pre_entries[1].msgstr_plural
     \/ /\ last_call.op = "newlines" /\ norm_count = <<3>>
        /\ entries # pre_entries

\* the translation values of an entry, each with the source text it pairs with
PairedValues(e) ==
  IF IsPlural(e)
  THEN {<<e.msgstr_plural[idx], IF idx = 0 THEN e.msgid ELSE e.msgid_plural>> :
          idx \in DOMAIN e.msgstr_plural}
  ELSE {<<e.msgstr, e.msgid>>}

\* C8: after the placeholder pass every token of the source text(s) of an
\* entry is found in every non-blank translation value of the entry.
C8_PlaceholdersPresent ==
  last_call.op = "placeholders" =>
    \A k \in 1..Len(entries) :
      \A p \in PairedValues(entries[k]) :
        strip(p[1]) # <<>> =>
          Range(source_placeholders(entries[k])) \subseteq Range(extract_placeholders(p[1]))

\* C9: after the newline pass every non-empty translation value of a live
\* entry has the leading and the trailing line-break count of its source.
C9_NewlineParity ==
  last_call.op = "newlines" =>
    \A k \in 1..Len(entries) :
      ~entries[k].obsolete =>
        \A p \in PairedValues(entries[k]) :
          p[1] # <<>> =>
            /\ count_leading_newlines(p[1]) = count_leading_newlines(p[2])
            /\ count_trailing_newlines(p[1]) = count_trailing_newlines(p[2])

\* a normalization to one form has just run on pluralizable entry k
Collapsed(k) ==
  /\ last_call.op = "normalize" /\ norm_count = <<1>>
  /\ k \in 1..Len(entries) /\ IsPlural(entries[k])

\* the token is required by the source and found in the value
HasToken(v, tok) == tok \in Range(extract_placeholders(v))

\* C10 as stated: form 1 is used if form 0 is blank, or if form 0 lacks a
\* token of the source (any of the three families) that form 1 has; else
\* form 0 is kept.  Values are compared after stripping.
C10_AnyFamily ==
  \A k \in 1..Len(entries) :
    Collapsed(k) =>
      LET f0 == Get(pre_entries[k].msgstr_plural, 0, <<>>)
          f1 == Get(pre_entries[k].msgstr_plural, 1, <<>>)
          required == Range(source_placeholders(pre_entries[k]))
      IN  entries[k].msgstr_plural[0] =
            IF strip(f0) = <<>> THEN strip(f1)
            ELSE IF \E tok \in required : ~HasToken(f0, tok) /\ HasToken(f1, tok)
                 THEN strip(f1)
            ELSE strip(f0)

\* a simplified printf token at position i: %s, %d, %1$s, %2$d
SimpleTokenAt(v, i) ==
  /\ At(v, i) = "%"
  /\ \/ At(v, i + 1) \in {"s", "d"}
     \/ \E j \in (i + 2)..Len(v) :
          /\ \A m \in (i + 1)..(j - 1) : v[m] \in Digits
          /\ v[j] = "$" /\ At(v, j + 1) \in {"s", "d"}

HasSimpleToken(v) == \E i \in 1..Len(v) : SimpleTokenAt(v, i)

\* C10: when the target count is 1, form 0 becomes the stripped form 1 if the
\* stripped form 0 is empty, or if a source text holds a simplified printf
\* token (%s, %d, with or without a position) and form 0 holds none while
\* form 1 holds one; else it becomes the stripped form 0.
C10_SingleFormCollapse ==
  \A k \in 1..Len(entries) :
    Collapsed(k) =>
      LET s0 == strip(Get(pre_entries[k].msgstr_plural, 0, <<>>))
          s1 == strip(Get(pre_entries[k].msgstr_plural, 1, <<>>))
          need == HasSimpleToken(pre_entries[k].msgid)
                  \/ HasSimpleToken(pre_entries[k].msgid_plural)
      IN  /\ DOMAIN entries[k].msgstr_plural = {0}
          /\ entries[k].msgstr_plural[0] =
               IF s0 = <<>> THEN s1
               ELSE IF need /\ ~HasSimpleToken(s0) /\ HasSimpleToken(s1) THEN s1
               ELSE s0

\* the example of the claim: a blank form 0 falls back to a form 1 with "%s",
\* and a form 0 without "%s" gives way to a form 1 that has it
C10_Witness ==
  /\ Collapsed(1)
  /\ HasSimpleToken(pre_entries[1].msgid)
  /\ entries[1].msgstr_plural[0] = <<"%", "s", "x">>
  /\ 1 \in DOMAIN pre_entries[1].msgstr_plural
  /\ pre_entries[1].msgstr_plural[1] = <<"%", "s", "x">>
  /\ 0 \in DOMAIN pre_entries[1].msgstr_plural
  /\ pre_entries[1].msgstr_plural[0] \in {<<>>, <<" ">>}

----------------------------------------------------------------------------
(* Properties of the regrouping *)

ImportDone == ImportCalled /\ last_call.ok

\* the form count of the language code given to the last import, the declared
\* count when none was given
TargetCount ==
  resolve_plural_count(po_loaded, entries, metadata, last_call.language_code)

\* the lines the last import gave to untranslated entry i
Consumed(i) ==
  IF plural_entries_map[i].is_plural
  THEN Cardinality(DOMAIN last_call.parsed[i].plural_forms)
  ELSE 1

\* the lines the last import gave to the entries before entry i
Offset(i) == SumSeq([j \in 1..(i - 1) |-> Consumed(j)])

\* a text with every backslash, n turned into "\n"
RECURSIVE UnescapeBreaks(_)
UnescapeBreaks(s) ==
  IF s = <<>> THEN <<>>
  ELSE IF Len(s) >= 2 /\ s[1] = BS /\ s[2] = "n"
       THEN <<LF>> \o UnescapeBreaks(SubSeq(s, 3, Len(s)))
  ELSE <<s[1]>> \o UnescapeBreaks(Tail(s))

\* unit k of the stream of the last import
DecodedLine(k) ==
  IF NumberedMode
  THEN UnescapeBreaks(SubSeq(StreamLines[k], numbered_prefix(StreamLines[k]) + 1,
                             Len(StreamLines[k])))
  ELSE StreamLines[k]

\* the values the last import parsed for entry i, in form order
ParsedValues(i) ==
  IF plural_entries_map[i].is_plural
  THEN [j \in 1..Consumed(i) |-> last_call.parsed[i].plural_forms[j - 1]]
  ELSE <<last_call.parsed[i].text>>

UnitIndex(k) ==
  IF \E i \in 1..Len(untranslated_entries) : untranslated_entries[i] = k
  THEN CHOOSE i \in 1..Len(untranslated_entries) : untranslated_entries[i] = k
  ELSE 0

\* the catalog with the decoded lines of the last import written to the
\* entries: a line to msgstr, or the lines to msgstr_plural with msgstr cleared
Applied ==
  [k \in 1..Len(pre_entries) |->
     LET i == UnitIndex(k)
     IN  IF i = 0 THEN pre_entries[k]
         ELSE IF plural_entries_map[i].is_plural
         THEN [pre_entries[k] EXCEPT
                 !.msgstr_plural = [j \in 0..(Consumed(i) - 1) |-> DecodedLine(Offset(i) + j + 1)],
                 !.msgstr = <<>>]
         ELSE [pre_entries[k] EXCEPT !.msgstr = DecodedLine(Offset(i) + 1)]]

\* C12 as stated: after a successful import every entry holds exactly the
\* decoded line(s) at its position, msgstr_plural being the mapping from form
\* index to line and msgstr of a pluralizable entry being empty.
C12_ExactLines == ImportDone => entries = Applied

\* C12: a successful import writes to entry k the decoded line(s) at its
\* position, replacing msgstr_plural as a whole and clearing msgstr of a
\* pluralizable entry, and then runs the newline pass and the normalization
\* to the language's form count on the catalog: the entries hold the result,
\* in which no pre-import form value is left.
C12_Applied ==
  ImportDone =>
    /\ entries = normalize_plural_entries(po_loaded, align_newline_parity(Applied),
                                          metadata, last_call.language_code)
    /\ \A i \in 1..Len(untranslated_entries) :
         LET e == entries[untranslated_entries[i]]
         IN  plural_entries_map[i].is_plural =>
               /\ e.msgstr = <<>>
               /\ \A idx \in DOMAIN e.msgstr_plural :
                    \E j \in 1..Consumed(i) :
                      strip(e.msgstr_plural[idx]) = strip(DecodedLine(Offset(i) + j))

\* an import that replaced the four translated forms of a pluralizable entry
\* and whose passes changed what the apply loop had written
C12_Witness ==
  /\ ImportDone
  /\ entries # Applied
  /\ \E i \in 1..Len(untranslated_entries) :
       /\ plural_entries_map[i].is_plural
       /\ 3 \in DOMAIN pre_entries[untranslated_entries[i]].msgstr_plural
       /\ 3 \notin DOMAIN entries[untranslated_entries[i]].msgstr_plural

----------------------------------------------------------------------------
(* Properties of the Linearizer and of the counts *)

\* msgid, msgid_plural, then msgid_plural again up to form_count units
ExpectedEntryTexts(e) ==
  IF IsPlural(e)
  THEN [k \in 1..DeclaredFormCount |-> IF k = 1 THEN e.msgid ELSE e.msgid_plural]
  ELSE <<e.msgid>>

RECURSIVE ExpectedTextsFrom(_)
ExpectedTextsFrom(i) ==
  IF i > Len(untranslated_entries) THEN <<>>
  ELSE ExpectedEntryTexts(entries[untranslated_entries[i]]) \o ExpectedTextsFrom(i + 1)

\* C13: a pluralizable entry linearizes to form_count units, msgid first,
\* msgid_plural in every later unit; an entry without plural to one unit
\* holding msgid; the units come in entry traversal order, in the texts of
\* get_untranslated_texts and in the lines of the exported file.
C13_PluralExpansion ==
  po_loaded =>
    LET expected == ExpectedTextsFrom(1)
    IN  /\ get_untranslated_texts(po_loaded, entries, metadata,
                                  untranslated_entries, plural_entries_map)
             = [k \in 1..Len(expected) |-> texts_one_line(expected[k])]
        /\ (last_call.op = "export" /\ last_call.ok) =>
              CutLines(txt_file.content, <<>>)
                = [k \in 1..Len(expected) |->
                     str(k) \o <<".", " ">> \o EscapeBreaks(expected[k])]

\* the last call normalized the catalog for its language_code argument
Resolved ==
  /\ last_call.op \in {"import", "save", "normalize"}
  /\ last_call.ok
  /\ Truthy(po_loaded, entries)

IsTranslated(e) ==
  IF IsPlural(e)
  THEN \E i \in DOMAIN e.msgstr_plural : strip(e.msgstr_plural[i]) # <<>>
  ELSE strip(e.msgstr) # <<>>

\* C15: in every state the statistics count each entry whose source is not
\* empty exactly once, as translated when it has a translation and as
\* untranslated otherwise, so that total = translated + untranslated.
C15_StatsCounts ==
  LET info == get_translation_info(po_loaded, entries)
      sourced == {k \in 1..Len(entries) : entries[k].msgid # <<>>}
  IN  /\ info.total = Cardinality(sourced)
      /\ info.translated = Cardinality({k \in sourced : IsTranslated(entries[k])})
      /\ info.untranslated = Cardinality({k \in sourced : ~IsTranslated(entries[k])})
      /\ info.total = info.translated + info.untranslated

\* the same count over the entries whose source is not blank
C15_NonBlankSources ==
  LET info == get_translation_info(po_loaded, entries)
      sourced == {k \in 1..Len(entries) : strip(entries[k].msgid) # <<>>}
  IN  /\ info.total = Cardinality(sourced)
      /\ info.translated = Cardinality({k \in sourced : IsTranslated(entries[k])})
      /\ info.untranslated = Cardinality({k \in sourced : ~IsTranslated(entries[k])})
      /\ info.total = info.translated + info.untranslated

\* ---------------------------------------------------------------------
\* Failures
\* ---------------------------------------------------------------------

\* the last call was a load that reported failure
LoadFailed == last_call.op = "load" /\ ~last_call.ok

\* C16: a load that reports failure changes nothing: the catalog, its
\* entries, the untranslated entries and the plural side table are what they
\* were before the call.
C16_FailedLoadKeepsState ==
  [][LoadFailed' =>
       UNCHANGED <<po_loaded, entries, metadata, untranslated_entries,
                   plural_entries_map>>]_vars

\* a load has failed in a session that holds a catalog loaded earlier
C16_Witness ==
  /\ LoadFailed
  /\ po_loaded
  /\ untranslated_entries # <<>>
  /\ entries = pre_entries

\* ---------------------------------------------------------------------
\* The two modes of the imported file
\* ---------------------------------------------------------------------

\* the lines of the file of the last import
FileLines == splitlines(read(last_call.file.content))

\* the values the last import parsed, entry after entry, form after form
RECURSIVE FlatValues(_)
FlatValues(i) ==
  IF i > Len(last_call.parsed) THEN <<>> ELSE ParsedValues(i) \o FlatValues(i + 1)

\* the numbered lines with the number of every prefix replaced by digit
WithNumber(lines, digit) ==
  [k \in 1..Len(lines) |->
     <<digit, ".", " ">> \o SubSeq(lines[k], numbered_prefix(lines[k]) + 1, Len(lines[k]))]

\* C19: when a line of the imported file has the numbered prefix, the file is
\* read as numbered: the units are the lines with a prefix, in file order,
\* each without its prefix and with every escape token turned into a line
\* break; the entries receive them by position, whatever number the prefix
\* holds.
C19_NumberedMode ==
  (ImportDone /\ \E k \in 1..Len(FileLines) : IsNumbered(FileLines[k])) =>
    LET units == SelectSeq(FileLines, IsNumbered)
        flat == FlatValues(1)
    IN  /\ Len(flat) <= Len(units)
        /\ \A k \in 1..Len(flat) :
             flat[k] = UnescapeBreaks(SubSeq(units[k], numbered_prefix(units[k]) + 1,
                                             Len(units[k])))
        /\ \A digit \in {"1", "7"} :
             LET again == parse_translations(WithNumber(units, digit), plural_entries_map,
                                             get_plural_count_from_po(po_loaded, entries,
                                                                      metadata))
             IN  again.ok /\ again.data = last_call.parsed

\* a numbered file of two units whose prefixes all hold the number 7 has been
\* imported, and a unit held an escape token
C19_Witness ==
  /\ ImportDone
  /\ Len(FileLines) >= 2
  /\ \A k \in 1..Len(FileLines) :
       /\ Len(FileLines[k]) >= 4
       /\ SubSeq(FileLines[k], 1, 4) = <<" ", "7", ".", " ">>
  /\ \E k \in 1..Len(FlatValues(1)) :
       \E j \in 1..Len(FlatValues(1)[k]) : FlatValues(1)[k][j] = LF

\* a numbered file holding a line without prefix has been imported
C19_SkippedLine ==
  /\ ImportDone
  /\ \E k \in 1..Len(FileLines) : IsNumbered(FileLines[k])
  /\ \E k \in 1..Len(FileLines) : ~IsNumbered(FileLines[k])

\* C20: when no line of the imported file has the numbered prefix, the units
\* are the non-blank lines of the file, in order and verbatim; a blank line is
\* no unit, so it is the translation of no entry and moves no other line.
C20_PlainMode ==
  (ImportDone /\ ~NumberedMode) =>
    LET units == SelectSeq(FileLines, LAMBDA ln : ~IsBlankLine(ln))
        flat == FlatValues(1)
    IN  /\ Len(flat) <= Len(units)
        /\ \A k \in 1..Len(flat) : flat[k] = units[k]

\* the same over every line of the file, blank or not
C20_EveryLine ==
  (ImportDone /\ ~NumberedMode) =>
    LET flat == FlatValues(1)
    IN  /\ Len(flat) <= Len(FileLines)
        /\ \A k \in 1..Len(flat) : flat[k] = FileLines[k]

\* a plain file whose blank line became the value parsed for an entry
C20_BlankLineTaken ==
  /\ ImportDone /\ ~NumberedMode
  /\ \E k \in 1..Len(FlatValues(1)) :
       IsBlankLine(FlatValues(1)[k]) /\ IsBlankLine(FileLines[k])
  /\ \E k \in 1..Len(FileLines) : ~IsBlankLine(FileLines[k])

-----------------------------------------------------------------------------
(* TextProcessor: the export format and the file it writes *)

QUOTE == "q22"
\* the full-width comma
FWCOMMA == "uff0c"

\* the formats set_export_format accepts
RecognizedFormats == {"numbered", "plain", "json"}

\* a set_export_format that stores whatever it is given
set_export_format_unchecked(current, format_type) ==
  [raised |-> FALSE, export_format |-> format_type]

\* set_export_format: [raised, export_format]
set_export_format(current, format_type) ==
  IF format_type \in RecognizedFormats
  THEN [raised |-> FALSE, export_format |-> format_type]
  ELSE [raised |-> TRUE, export_format |-> current]

\* the three comment lines and the empty line written when add_context
ContextHeader ==
  <<"#", " ", "P", "O", CJK, CJK, CJK, CJK, CJK, CJK, CJK, LF, "#", " ",
    CJK, CJK, CJK, CJK, CJK, CJK, CJK, FWCOMMA, CJK, CJK, CJK, CJK, CJK,
    CJK, CJK, LF, "#", " ", CJK, CJK, ":", " ", CJK, CJK, ".", " ", CJK,
    CJK, LF, LF>>

RECURSIVE numbered_lines(_, _)
numbered_lines(texts, i) ==
  IF i > Len(texts) THEN <<>>
  ELSE str(i) \o <<".", " ">> \o texts[i] \o <<LF>> \o numbered_lines(texts, i + 1)

\* _export_numbered_format
export_numbered_format(texts, add_context) ==
  (IF add_context THEN ContextHeader ELSE <<>>) \o numbered_lines(texts, 1)

\* _export_plain_format: no line break after the last text
export_plain_format(texts) == join(<<LF>>, texts)

\* a string as json.dump writes it with ensure_ascii=False
RECURSIVE json_chars(_)
json_chars(text) ==
  IF text = <<>> THEN <<>>
  ELSE (CASE Head(text) = QUOTE -> <<BS, QUOTE>>
          [] Head(text) = BS -> <<BS, BS>>
          [] Head(text) = LF -> <<BS, "n">>
          [] Head(text) = CR -> <<BS, "r">>
          [] Head(text) = TAB -> <<BS, "t">>
          [] Head(text) = FF -> <<BS, "f">>
          [] OTHER -> <<Head(text)>>)
       \o json_chars(Tail(text))

\* _export_json_format: json.dump of texts, count and format with indent=2
export_json_format(texts) ==
  LET item(k) == <<" ", " ", " ", " ", QUOTE>> \o json_chars(texts[k]) \o <<QUOTE>>
  IN  <<"{", LF>>
      \o <<" ", " ", QUOTE, "t", "e", "x", "t", "s", QUOTE, ":", " ", "[", LF>>
      \o join(<<",", LF>>, [k \in 1..Len(texts) |-> item(k)]) \o <<LF>>
      \o <<" ", " ", "]", ",", LF>>
      \o <<" ", " ", QUOTE, "c", "o", "u", "n", "t", QUOTE, ":", " ">> \o str(Len(texts)) \o <<",", LF>>
      \o
        <<" ", " ", QUOTE, "f", "o", "r", "m", "a", "t", QUOTE, ":", " ",
          QUOTE, "p", "o", "_", "t", "r", "a", "n", "s", "l", "a", "t", "i",
          "o", "n", QUOTE, LF, "}">>

\* what the with block of export_texts_to_file writes for a format; nothing
\* for a format none of its branches names
write_format(format, texts, add_context) ==
  CASE format = "numbered" -> export_numbered_format(texts, add_context)
    [] format = "plain" -> export_plain_format(texts)
    [] format = "json" -> export_json_format(texts)
    [] OTHER -> <<>>

\* export_texts_to_file: [ok, opened, content]; no file is opened for an empty
\* list, and a file that cannot be opened is a failure
export_texts_to_file(format, texts, add_context, writable) ==
  IF texts = <<>> \/ ~writable THEN [ok |-> FALSE, opened |-> FALSE, content |-> <<>>]
  ELSE [ok |-> TRUE, opened |-> TRUE, content |-> write_format(format, texts, add_context)]

\* str.split("\n"): the pieces between the line feeds, from position p on
RECURSIVE split_lf(_, _)
split_lf(s, p) ==
  LET q == FindChar(s, p, {LF})
  IN  IF q > Len(s) THEN <<SubSeq(s, p, Len(s))>>
      ELSE <<SubSeq(s, p, q - 1)>> \o split_lf(s, q + 1)

\* content.strip().split('\n')
content_lines(content) == split_lf(strip(content), 1)

\* re.compile(r'^\d+\.\s*(.+)$').match(line): [matched, text] with text the
\* group; \s* takes every white space it can and gives one back when nothing
\* else is left for the group
numbered_pattern(line) ==
  LET d == RunEnd(line, 1, Digits)
      r == RunEnd(line, d + 1, Whitespace)
  IN  IF d > 1 /\ At(line, d) = "." /\ d + 1 <= Len(line)
      THEN [matched |-> TRUE,
            text |-> IF r <= Len(line) THEN SubSeq(line, r, Len(line))
                     ELSE <<line[Len(line)]>>]
      ELSE [matched |-> FALSE, text |-> <<>>]

\* the loop of _parse_numbered_format from line k on, texts collected so far
RECURSIVE parse_numbered_from(_, _, _)
parse_numbered_from(lines, k, texts) ==
  IF k > Len(lines) THEN texts
  ELSE LET line == strip(lines[k])
           m == numbered_pattern(line)
       IN  IF line = <<>> \/ startswith(line, <<"#">>)
           THEN parse_numbered_from(lines, k + 1, texts)
           ELSE IF m.matched
           THEN parse_numbered_from(lines, k + 1, Append(texts, m.text))
           ELSE IF texts # <<>>
           THEN parse_numbered_from(lines, k + 1,
                  [texts EXCEPT ![Len(texts)] = @ \o <<" ">> \o line])
           ELSE parse_numbered_from(lines, k + 1, texts)

\* _parse_numbered_format
parse_numbered_format(content) == parse_numbered_from(content_lines(content), 1, <<>>)

\* the loop of _parse_plain_format
RECURSIVE parse_plain_from(_, _)
parse_plain_from(lines, k) ==
  IF k > Len(lines) THEN <<>>
  ELSE LET line == strip(lines[k])
       IN  (IF line # <<>> /\ ~startswith(line, <<"#">>) THEN <<line>> ELSE <<>>)
           \o parse_plain_from(lines, k + 1)

\* _parse_plain_format
parse_plain_format(content) == parse_plain_from(content_lines(content), 1)

\* what a JSON string literal holds from position p on, acc read so far:
\* [ok, text, next], next the position after the closing quote
RECURSIVE json_string(_, _, _)
json_string(s, p, acc) ==
  LET q == FindChar(s, p, {QUOTE, BS, LF, CR, TAB, FF})
      run == acc \o SubSeq(s, p, q - 1)
      escaped == (QUOTE :> QUOTE) @@ (BS :> BS) @@ ("n" :> LF) @@ ("r" :> CR)
                   @@ ("t" :> TAB) @@ ("f" :> FF)
  IN  IF At(s, q) = QUOTE THEN [ok |-> TRUE, text |-> run, next |-> q + 1]
      ELSE IF At(s, q) = BS /\ At(s, q + 1) \in DOMAIN escaped
      THEN json_string(s, q + 2, Append(run, escaped[At(s, q + 1)]))
      ELSE [ok |-> FALSE, text |-> <<>>, next |-> q]

\* the string literals of a JSON array read from the position after "[":
\* [ok, texts]
RECURSIVE json_array(_, _, _)
json_array(s, p, acc) ==
  LET q == RunEnd(s, p, {" ", LF, CR, TAB})
      item == json_string(s, q + 1, <<>>)
      c == RunEnd(s, item.next, {" ", LF, CR, TAB})
  IN  IF At(s, q) = "]" /\ acc = <<>> THEN [ok |-> TRUE, texts |-> <<>>]
      ELSE IF At(s, q) # QUOTE \/ ~item.ok THEN [ok |-> FALSE, texts |-> <<>>]
      ELSE IF At(s, c) = "]" THEN [ok |-> TRUE, texts |-> Append(acc, item.text)]
      ELSE IF At(s, c) = "," THEN json_array(s, c + 1, Append(acc, item.text))
      ELSE [ok |-> FALSE, texts |-> <<>>]

\* json.loads(content) followed by data['texts']: [ok, texts]. The documents
\* read are the ones _export_json_format writes; content of any other shape
\* is taken as one json.loads raises on.
json_texts(content) ==
  LET open == FindChar(content, 1, {"["})
      a == json_array(content, open + 1, <<>>)
  IN  IF open <= Len(content) /\ a.ok /\ content = export_json_format(a.texts)
      THEN a
      ELSE [ok |-> FALSE, texts |-> <<>>]

\* _auto_detect_and_parse: the JSON document when there is one, else the
\* numbered parser when more than 0.7 of the lines that are neither blank nor
\* start with "#" match the numbered pattern, else the plain parser
auto_detect_and_parse(content) ==
  LET lines == content_lines(content)
      non_comment_lines ==
        {k \in 1..Len(lines) : strip(lines[k]) # <<>> /\ ~startswith(lines[k], <<"#">>)}
      numbered_matches ==
        Cardinality({k \in non_comment_lines : numbered_pattern(strip(lines[k])).matched})
  IN  IF startswith(strip(content), <<"{">>) /\ json_texts(content).ok
      THEN json_texts(content).texts
      ELSE IF non_comment_lines # {}
                /\ 10 * numbered_matches > 7 * Cardinality(non_comment_lines)
      THEN parse_numbered_format(content)
      ELSE parse_plain_format(content)

\* import_texts_from_file with import_format "auto", which nothing changes:
\* the empty list for a file that does not exist; a file without "\r" is
\* read as it is
import_texts_from_file(file) ==
  IF ~file.exists THEN <<>>
  ELSE auto_detect_and_parse(IF CR \in Range(file.content) THEN read(file.content)
                             ELSE file.content)

\* validate_translation_count: the first member of the pair it returns
validate_translation_count(original_count, translated_texts) ==
  Len(translated_texts) = original_count

\* the formats a caller asks for: the three recognized ones and two others
RequestedFormats == RecognizedFormats \cup {"csv", ""}

\* the text lists a caller exports
ExportedTexts ==
  { <<>>, <<<<"a">>>>, <<<<"a">>, <<"b", QUOTE>>>>, <<<<CJK, " ", "%", "s">>>>,
    <<<<"#", "a">>, <<"b">>>>, <<<<"1", ".", " ", "a">>>>, <<<<" ", "a">>>> }

TpCall(op, format_type, texts, add_context, raised, ok) ==
  [op |-> op, format_type |-> format_type, texts |-> texts,
   add_context |-> add_context, raised |-> raised, ok |-> ok]

\* set_export_format(format_type)
SetExportFormat(format_type) ==
  /\ calls < MaxCalls
  /\ LET r == set_export_format(export_format, format_type)
     IN  /\ export_format' = r.export_format
         /\ tp_call' = TpCall("set_export_format", format_type, <<>>, FALSE,
                              r.raised, ~r.raised)
  /\ calls' = calls + 1
  /\ UNCHANGED <<po_loaded, entries, metadata, untranslated_entries,
                 plural_entries_map, txt_file, last_call, pre_entries, norm_count,
                 out_file, current_po_file, workers, held, cli>>

\* export_texts_to_file(texts, output_path, add_context)
ExportTextsToFile(texts, add_context, writable) ==
  /\ calls < MaxCalls
  /\ LET r == export_texts_to_file(export_format, texts, add_context, writable)
     IN  /\ out_file' = IF r.opened THEN File(r.content) ELSE out_file
         /\ tp_call' = TpCall("export_texts_to_file", "", texts, add_context,
                              FALSE, r.ok)
  /\ calls' = calls + 1
  /\ UNCHANGED <<po_loaded, entries, metadata, untranslated_entries,
                 plural_entries_map, txt_file, last_call, pre_entries, norm_count,
                 export_format, current_po_file, workers, held, cli>>

SetFormat == \E format_type \in RequestedFormats : SetExportFormat(format_type)

ExportToFile ==
  \E texts \in ExportedTexts : \E add_context \in BOOLEAN : \E writable \in BOOLEAN :
    ExportTextsToFile(texts, add_context, writable)

NextProcessor == SetFormat \/ ExportToFile

SpecProcessor == Init /\ [][NextProcessor]_vars

\* C17: a request for a format that is none of numbered, plain and json
\* raises, opens no file and leaves export_format as it was; a recognized
\* format is stored, and the next export writes the file in the stored format.
C17_UnsupportedFormat ==
  [][/\ (tp_call'.op = "set_export_format"
           /\ tp_call'.format_type \notin {"numbered", "plain", "json"}) =>
          (tp_call'.raised /\ UNCHANGED <<export_format, out_file>>)
     /\ (tp_call'.op = "set_export_format"
           /\ tp_call'.format_type \in {"numbered", "plain", "json"}) =>
          (~tp_call'.raised /\ export_format' = tp_call'.format_type
             /\ UNCHANGED out_file)
     /\ (tp_call'.op = "export_texts_to_file" /\ tp_call'.ok) =>
          /\ UNCHANGED export_format
          /\ export_format \in {"numbered", "plain", "json"}
          /\ out_file'.exists
          /\ out_file'.content =
               (CASE export_format = "numbered" ->
                       export_numbered_format(tp_call'.texts, tp_call'.add_context)
                  [] export_format = "plain" -> export_plain_format(tp_call'.texts)
                  [] export_format = "json" -> export_json_format(tp_call'.texts))
    ]_vars

\* json was stored and a file written in it, then an unrecognized format was
\* refused
C17_Witness ==
  /\ tp_call.op = "set_export_format" /\ tp_call.raised
  /\ export_format = "json"
  /\ out_file.exists /\ Head(out_file.content) = "{"

\* the last call wrote a non-empty list of non-empty single-line texts
ExportedSingleLines ==
  /\ tp_call.op = "export_texts_to_file" /\ tp_call.ok
  /\ tp_call.texts # <<>>
  /\ \A k \in 1..Len(tp_call.texts) :
       /\ tp_call.texts[k] # <<>>
       /\ \A j \in 1..Len(tp_call.texts[k]) : tp_call.texts[k][j] \notin {LF, CR}

\* import_texts_from_file of the file written returns the texts written
RoundTrip == import_texts_from_file(out_file) = tp_call.texts

\* C28: for each export format and every non-empty list of non-empty
\* single-line texts, import_texts_from_file in auto mode returns from the file
\* export_texts_to_file wrote the same texts in the same order, texts with a
\* leading "#", a leading number and dot, or surrounding spaces included.
C28_RoundTrip == ExportedSingleLines => RoundTrip

\* the json file gives every list back
C28_JsonRoundTrip == (ExportedSingleLines /\ export_format = "json") => RoundTrip

\* the numbered file gives back the texts without surrounding white space
C28_NumberedRoundTrip ==
  (/\ ExportedSingleLines
   /\ export_format = "numbered"
   /\ \A k \in 1..Len(tp_call.texts) : strip(tp_call.texts[k]) = tp_call.texts[k])
    => RoundTrip

\* a plain file whose first text starts with "#" is read back without it
C28_CommentDropped ==
  /\ ExportedSingleLines /\ export_format = "plain"
  /\ Head(Head(tp_call.texts)) = "#"
  /\ import_texts_from_file(out_file) = Tail(tp_call.texts)

\* a plain file holding the one text "1. a" is read back as "a"
C28_NumberTaken ==
  /\ ExportedSingleLines /\ export_format = "plain"
  /\ tp_call.texts = <<<<"1", ".", " ", "a">>>>
  /\ import_texts_from_file(out_file) = <<<<"a">>>>

-----------------------------------------------------------------------------
(* The window: every click starts a daemon thread that works on the one      *)
(* POParser and the one TextProcessor of the window. A thread runs one       *)
(* statement group of its task per step; steps of different threads          *)
(* interleave.                                                               *)

\* the entry objects self.untranslated_entries indexes
HeldEntries == IF held.current THEN entries ELSE held.entries

\* re.sub(r'\s+', ' ', text): every run of white space becomes one space
RECURSIVE collapse_whitespace(_)
collapse_whitespace(s) ==
  LET q == FindChar(s, 1, Whitespace)
  IN  IF q > Len(s) THEN s
      ELSE SubSeq(s, 1, q - 1) \o <<" ">>
           \o collapse_whitespace(lstrip(SubSeq(s, q, Len(s))))

\* TextProcessor.clean_text
clean_text(text) == collapse_whitespace(strip(text))

\* a path polib cannot read
Unreadable == [entries |-> <<>>, metadata |-> [PluralForms |-> <<0>>, Language |-> ""]]

\* the catalog files chosen in the window
GuiCatalogs ==
  { [entries |-> <<EntryLines, EntryPlural>>,
     metadata |-> [PluralForms |-> <<>>, Language |-> ""]],
    [entries |-> <<EntryPlural>>,
     metadata |-> [PluralForms |-> <<3>>, Language |-> ""]] }

\* the translation file chosen: a path with no file, a file typed by hand,
\* the file export_task wrote
GuiTranslations == {"missing", "typed", "exported"}

\* the file at a chosen path
translation_file(path) ==
  CASE path = "typed" -> File(<<"t", " ", " ", "u", LF, "v", LF, "w", LF>>)
    [] path = "exported" -> out_file
    [] OTHER -> NoFile

Worker(id, task, pc, cat, texts, language_code, path) ==
  [id |-> id, task |-> task, pc |-> pc, cat |-> cat, texts |-> texts,
   language_code |-> language_code, path |-> path]

\* the thread moves on to the statement at pc, or ends when pc is "done"
Goto(w, pc) ==
  IF pc = "done" THEN workers \ {w}
  ELSE (workers \ {w}) \cup {[w EXCEPT !.pc = pc]}

\* what the window and the threads never touch
session_vars == <<txt_file, last_call, pre_entries, norm_count, cli>>

\* browse_po_file: the path is kept and load_po_file starts load_task
BrowsePoFile(cat) ==
  /\ calls < MaxCalls
  /\ current_po_file' = TRUE
  /\ workers' = workers \cup {Worker(calls + 1, "load", "566", cat, <<>>, "", "")}
  /\ calls' = calls + 1
  /\ UNCHANGED <<po_loaded, entries, metadata, untranslated_entries,
                 plural_entries_map, export_format, out_file, tp_call, held,
                 session_vars>>

\* export_texts: once a catalog path was chosen, export_task is started
ExportTexts ==
  /\ calls < MaxCalls
  /\ current_po_file
  /\ workers' = workers \cup {Worker(calls + 1, "export", "164", Unreadable, <<>>, "", "")}
  /\ calls' = calls + 1
  /\ UNCHANGED <<po_loaded, entries, metadata, untranslated_entries,
                 plural_entries_map, export_format, out_file, tp_call, held,
                 current_po_file, session_vars>>

\* generate_translated_po: once both paths were chosen, generate_task is
\* started
GenerateTranslatedPo(path, language_code) ==
  /\ calls < MaxCalls
  /\ current_po_file
  /\ workers' = workers \cup {Worker(calls + 1, "generate", "221", Unreadable,
                                     <<>>, language_code, path)}
  /\ calls' = calls + 1
  /\ UNCHANGED <<po_loaded, entries, metadata, untranslated_entries,
                 plural_entries_map, export_format, out_file, tp_call, held,
                 current_po_file, session_vars>>

\* load_task in POParser.load_po_file: the assignment of po_file and
\* all_entries, of untranslated_entries, the reset of plural_entries_map, the
\* loop that fills it
LoadTask(w) ==
  /\ w.task = "load"
  /\ CASE w.pc = "566" ->
            IF w.cat = Unreadable
            THEN /\ workers' = Goto(w, "done")
                 /\ UNCHANGED <<po_loaded, entries, metadata, held,
                                untranslated_entries, plural_entries_map>>
            ELSE /\ po_loaded' = TRUE
                 /\ entries' = w.cat.entries
                 /\ metadata' = w.cat.metadata
                 /\ held' = IF held.current THEN [current |-> FALSE, entries |-> entries]
                            ELSE held
                 /\ workers' = Goto(w, "569")
                 /\ UNCHANGED <<untranslated_entries, plural_entries_map>>
       [] w.pc = "569" ->
            /\ untranslated_entries' = untranslated_of(entries)
            /\ held' = HeldCurrent
            /\ workers' = Goto(w, "575")
            /\ UNCHANGED <<po_loaded, entries, metadata, plural_entries_map>>
       [] w.pc = "575" ->
            /\ plural_entries_map' = <<>>
            /\ workers' = Goto(w, "576")
            /\ UNCHANGED <<po_loaded, entries, metadata, held, untranslated_entries>>
       [] w.pc = "576" ->
            /\ plural_entries_map' =
                 [i \in 1..Len(untranslated_entries) |->
                    LET e == HeldEntries[untranslated_entries[i]]
                    IN  [msgid |-> e.msgid, msgid_plural |-> e.msgid_plural,
                         is_plural |-> e.msgid_plural # <<>>]]
            /\ workers' = Goto(w, "done")
            /\ UNCHANGED <<po_loaded, entries, metadata, held, untranslated_entries>>
  /\ UNCHANGED <<export_format, out_file, tp_call, current_po_file, calls,
                 session_vars>>

\* get_untranslated_texts as a thread runs it: [raised, texts]; the lookup of
\* plural_entries_map[i] raises when the map lacks the key
worker_texts ==
  IF untranslated_entries = <<>> THEN [raised |-> FALSE, texts |-> <<>>]
  ELSE IF Len(plural_entries_map) < Len(untranslated_entries)
  THEN [raised |-> TRUE, texts |-> <<>>]
  ELSE LET units == linear_units(HeldEntries, untranslated_entries, plural_entries_map,
                                 get_plural_count_from_po(po_loaded, entries, metadata), 1)
       IN  [raised |-> FALSE, texts |-> [k \in 1..Len(units) |-> texts_one_line(units[k])]]

\* export_task: set_export_format("plain"), get_untranslated_texts,
\* export_texts_to_file(texts, file_path, add_context=True)
ExportTask(w) ==
  /\ w.task = "export"
  /\ CASE w.pc = "164" ->
            /\ export_format' = set_export_format(export_format, "plain").export_format
            /\ workers' = Goto(w, "167")
            /\ UNCHANGED out_file
       [] w.pc = "167" ->
            /\ workers' =
                 IF worker_texts.raised \/ worker_texts.texts = <<>> THEN Goto(w, "done")
                 ELSE (workers \ {w})
                        \cup {[w EXCEPT !.pc = "174", !.texts = worker_texts.texts]}
            /\ UNCHANGED <<export_format, out_file>>
       [] w.pc = "174" ->
            /\ out_file' = File(export_texts_to_file(export_format, w.texts, TRUE, TRUE).content)
            /\ workers' = Goto(w, "done")
            /\ UNCHANGED export_format
  /\ UNCHANGED <<po_loaded, entries, metadata, untranslated_entries,
                 plural_entries_map, held, tp_call, current_po_file, calls,
                 session_vars>>

\* the loop at 236-238: translation i is cleaned and written to the msgstr
\* of untranslated entry i
apply_cleaned(es, ue, translations) ==
  [k \in 1..Len(es) |->
     IF \E i \in 1..Len(ue) : ue[i] = k /\ i <= Len(translations)
     THEN [es[k] EXCEPT !.msgstr =
             clean_text(translations[CHOOSE i \in 1..Len(ue) : ue[i] = k])]
     ELSE es[k]]

\* generate_task: import_texts_from_file, the count validation, the loop
\* that writes the translations, save_translated_po
GenerateTask(w) ==
  /\ w.task = "generate"
  /\ CASE w.pc = "221" ->
            /\ LET translations == import_texts_from_file(translation_file(w.path))
               IN  workers' =
                     IF translations = <<>> THEN Goto(w, "done")
                     ELSE (workers \ {w})
                            \cup {[w EXCEPT !.pc = "228", !.texts = translations]}
            /\ UNCHANGED <<entries, metadata, held>>
       [] w.pc = "228" ->
            /\ workers' =
                 Goto(w, IF ~worker_texts.raised /\ Len(w.texts) = Len(worker_texts.texts)
                         THEN "236" ELSE "done")
            /\ UNCHANGED <<entries, metadata, held>>
       [] w.pc = "236" ->
            /\ IF held.current
               THEN /\ entries' = apply_cleaned(entries, untranslated_entries, w.texts)
                    /\ UNCHANGED held
               ELSE /\ held' = [held EXCEPT !.entries =
                                  apply_cleaned(held.entries, untranslated_entries, w.texts)]
                    /\ UNCHANGED entries
            /\ workers' = Goto(w, "242")
            /\ UNCHANGED metadata
       [] w.pc = "242" ->
            /\ IF Truthy(po_loaded, entries)
               THEN /\ entries' = repair_passes(po_loaded, entries, metadata, w.language_code)
                    /\ metadata' = update_metadata(metadata, w.language_code)
               ELSE UNCHANGED <<entries, metadata>>
            /\ workers' = Goto(w, "done")
            /\ UNCHANGED held
  /\ UNCHANGED <<po_loaded, untranslated_entries, plural_entries_map, export_format,
                 out_file, tp_call, current_po_file, calls, session_vars>>

Browse == \E cat \in GuiCatalogs \cup {Unreadable} : BrowsePoFile(cat)

Generate ==
  \E path \in GuiTranslations : \E language_code \in {"", "zh_CN"} :
    GenerateTranslatedPo(path, language_code)

\* a step of a running thread
LoadThread == \E w \in workers : LoadTask(w)
ExportThread == \E w \in workers : ExportTask(w)
GenerateThread == \E w \in workers : GenerateTask(w)

NextGui ==
  \/ Browse \/ ExportTexts \/ Generate
  \/ LoadThread \/ ExportThread \/ GenerateThread

SpecGui == Init /\ [][NextGui]_vars

\* a load_task has assigned po_file and not yet finished the plural map
LoadPartWay(w) == w.task = "load" /\ w.pc \in {"569", "575", "576"}

\* the thread's next statement reads untranslated_entries, plural_entries_map
\* or po_file
AboutToRead(w) ==
  \/ w.task = "export" /\ w.pc = "167"
  \/ w.task = "generate" /\ w.pc \in {"228", "236", "242"}

\* C18: no two of the load, export and generate invocations of the window
\* execute at the same time on the POParser, so none reads
\* untranslated_entries, plural_entries_map or po_file while a load is
\* part-way through updating them.
C18_NonReentrant ==
  /\ Cardinality(workers) <= 1
  /\ \A w1 \in workers : \A w2 \in workers \ {w1} :
       ~(LoadPartWay(w1) /\ AboutToRead(w2))

\* an export wrote a file that is the export of no catalog chosen in the
\* window
C18_TornExport ==
  /\ out_file.exists
  /\ \A cat \in GuiCatalogs :
       out_file.content #
         export_plain_format(
           get_untranslated_texts(TRUE, cat.entries, cat.metadata,
                                  untranslated_of(cat.entries),
                                  plural_map_of(cat.entries)))

-----------------------------------------------------------------------------
(* Properties of the passes, continued *)

\* a normalization to n >= 2 forms has just run on pluralizable entry k
Filled(k) ==
  /\ last_call.op = "normalize" /\ norm_count # <<>> /\ norm_count[1] >= 2
  /\ k \in 1..Len(entries) /\ IsPlural(entries[k])

\* C21 as stated: every missing index below n receives the value of form 1
\* when that is non-blank and else the value of form 0; the indices below n
\* that were present keep their values.
C21_FillValues ==
  \A k \in 1..Len(entries) :
    Filled(k) =>
      LET before == pre_entries[k].msgstr_plural
          after == entries[k].msgstr_plural
          one == Get(before, 1, <<>>)
      IN  \A i \in 0..(norm_count[1] - 1) :
            after[i] = IF i \in DOMAIN before THEN before[i]
                       ELSE IF strip(one) # <<>> THEN one
                       ELSE Get(before, 0, <<>>)

\* C21: the same with the filled value stripped of its surrounding white
\* space: form 1's value stripped when that is non-blank, else form 0's value
\* stripped.
C21_FillStripped ==
  \A k \in 1..Len(entries) :
    Filled(k) =>
      LET before == pre_entries[k].msgstr_plural
          after == entries[k].msgstr_plural
          one == strip(Get(before, 1, <<>>))
      IN  \A i \in 0..(norm_count[1] - 1) :
            after[i] = IF i \in DOMAIN before THEN before[i]
                       ELSE IF one # <<>> THEN one
                       ELSE strip(Get(before, 0, <<>>))

\* a normalization to three forms filled form 2 from a non-blank form 1 that
\* differs from form 0
C21_Witness ==
  /\ Filled(1) /\ norm_count = <<3>>
  /\ DOMAIN pre_entries[1].msgstr_plural = {0, 1}
  /\ strip(pre_entries[1].msgstr_plural[1]) # <<>>
  /\ strip(pre_entries[1].msgstr_plural[1]) # strip(pre_entries[1].msgstr_plural[0])
  /\ entries[1].msgstr_plural[2] = strip(pre_entries[1].msgstr_plural[1])

\* the translation slots of an entry: the form indices, or -1 for msgstr
Slots(e) == IF IsPlural(e) THEN DOMAIN e.msgstr_plural ELSE {-1}

SlotValue(e, slot) == IF slot = -1 THEN e.msgstr ELSE e.msgstr_plural[slot]

IsPrefix(a, b) == Len(a) <= Len(b) /\ SubSeq(b, 1, Len(a)) = a

\* the placeholder pass on its own: a value that lacks no token is unchanged,
\* any other value is a prefix of the repaired one, a blank value is unchanged
PlaceholderPassAddsOnly ==
  last_call.op = "placeholders" =>
    \A k \in 1..Len(entries) :
      \A slot \in Slots(pre_entries[k]) :
        LET before == SlotValue(pre_entries[k], slot)
            after == SlotValue(entries[k], slot)
        IN  /\ IsPrefix(before, after)
            /\ Range(source_placeholders(pre_entries[k]))
                 \subseteq Range(extract_placeholders(before)) => after = before
            /\ strip(before) = <<>> => after = before

\* the newline pass leaves the values in Untouched as they were
NewlinePassKeeps(Untouched(_)) ==
  last_call.op = "newlines" =>
    \A k \in 1..Len(entries) :
      \A slot \in Slots(pre_entries[k]) :
        Untouched(SlotValue(pre_entries[k], slot)) =>
          SlotValue(entries[k], slot) = SlotValue(pre_entries[k], slot)

\* C22: the placeholder pass only appends what is missing, and a translation
\* value that is empty or made of white space is left exactly as it was by
\* the placeholder pass and by the newline-parity pass.
C22_AddOnly ==
  /\ PlaceholderPassAddsOnly
  /\ NewlinePassKeeps(LAMBDA v : strip(v) = <<>>)

\* the same with the newline pass leaving the empty values only
C22_EmptyKept ==
  /\ PlaceholderPassAddsOnly
  /\ NewlinePassKeeps(LAMBDA v : v = <<>>)

-----------------------------------------------------------------------------
(* Export and import of the same catalog *)

\* the last call imported the unedited export of the catalog it was given
UneditedImport ==
  /\ ImportCalled
  /\ last_call.file = txt_file
  /\ ExportOfCatalog
  /\ NumberedMode

\* the lines export_untranslated_to_txt wrote for untranslated entry i
Produced(i) ==
  Len(entry_units(pre_entries[untranslated_entries[i]], plural_entries_map[i].is_plural,
                  get_plural_count_from_po(po_loaded, pre_entries, metadata)))

\* the import of an unedited export consumes for every entry the lines the
\* export wrote for it
LinesMatch ==
  UneditedImport =>
    /\ last_call.ok
    /\ \A i \in 1..Len(untranslated_entries) : Consumed(i) = Produced(i)

\* C23: whatever loads, imports and saves came before, and whatever
\* Plural-Forms the catalog declares, nplurals=1 included, an unedited export
\* re-imports with every entry consuming exactly the lines it produced.
C23_ExportImportLines == LinesMatch

\* the same for the catalogs that do not declare nplurals=1
C23_NotOneForm == (metadata.PluralForms # <<1>>) => LinesMatch

\* an unedited export was imported into a catalog declaring one form, and a
\* pluralizable entry consumed fewer lines than it produced
C23_OneFormShortfall ==
  /\ UneditedImport /\ last_call.ok
  /\ metadata.PluralForms = <<1>>
  /\ \E i \in 1..Len(untranslated_entries) : Consumed(i) < Produced(i)

\* the last call was a save that wrote the catalog
Saved == last_call.op = "save" /\ last_call.ok

\* every pluralizable entry has as many forms as the header declares
SlotsMatchHeader ==
  \A k \in 1..Len(entries) :
    IsPlural(entries[k]) =>
      Cardinality(DOMAIN entries[k].msgstr_plural) = DeclaredFormCount

\* C24: after a save with a recognized language code, an unrecognized one or
\* none, every pluralizable entry of the saved catalog has as many form slots
\* as the Plural-Forms written to it declares, 2 when it declares none.
C24_SlotsMatchHeader == Saved => SlotsMatchHeader

\* the same for the saves whose language code is none or one of the table
C24_KnownCode ==
  (Saved /\ last_call.language_code \in {""} \cup DOMAIN LANGUAGE_CONFIG) => SlotsMatchHeader

\* a save under a code the table does not have left two forms in a catalog
\* whose header declares three
C24_UnknownCode ==
  /\ Saved /\ last_call.language_code = "xx_XX"
  /\ metadata.PluralForms = <<3>>
  /\ \E k \in 1..Len(entries) :
       IsPlural(entries[k]) /\ DOMAIN entries[k].msgstr_plural = {0, 1}

\* every non-empty translation value of the catalog has the leading and the
\* trailing line-break count of the source text it pairs with
ParityHolds ==
  \A k \in 1..Len(entries) :
    \A p \in PairedValues(entries[k]) :
      p[1] # <<>> =>
        /\ count_leading_newlines(p[1]) = count_leading_newlines(p[2])
        /\ count_trailing_newlines(p[1]) = count_trailing_newlines(p[2])

\* C25: after a successful import, before any save, every non-empty
\* translation value has the line-break counts of its source, whatever the
\* target form count, 1 included: the normalization import runs after the
\* newline alignment does not undo it.
C25_ParityAfterImport == ImportDone => ParityHolds

\* what the newline alignment of the import left, before its normalization
AlignedOnly == align_newline_parity(Applied)

\* the values the normalization of the import did not rewrite keep the parity
\* the alignment gave them
C25_UntouchedValues ==
  ImportDone =>
    \A k \in 1..Len(entries) :
      \A idx \in DOMAIN entries[k].msgstr_plural :
        (idx \in DOMAIN AlignedOnly[k].msgstr_plural
           /\ entries[k].msgstr_plural[idx] = AlignedOnly[k].msgstr_plural[idx]
           /\ entries[k].msgstr_plural[idx] # <<>>
           /\ strip(entries[k].msgstr_plural[idx]) # <<>>)
        => LET v == entries[k].msgstr_plural[idx]
               src == IF idx = 0 THEN entries[k].msgid ELSE entries[k].msgid_plural
           IN  /\ count_leading_newlines(v) = count_leading_newlines(src)
               /\ count_trailing_newlines(v) = count_trailing_newlines(src)

\* an import for a one-form language whose collapse removed the trailing line
\* break the alignment had kept
C25_CollapseUndoes ==
  /\ ImportDone /\ norm_count = <<1>>
  /\ \E k \in 1..Len(entries) :
       /\ IsPlural(entries[k])
       /\ count_trailing_newlines(entries[k].msgid) = 1
       /\ count_trailing_newlines(AlignedOnly[k].msgstr_plural[0]) = 1
       /\ entries[k].msgstr_plural[0] # <<>>
       /\ count_trailing_newlines(entries[k].msgstr_plural[0]) = 0

-----------------------------------------------------------------------------
(* The loop of generate_task that writes the translations *)

\* the one thread left is a generate_task that has run the loop at 236-238,
\* after the one load of the window had finished
LoopDone(w) ==
  /\ workers = {w}
  /\ w.task = "generate" /\ w.pc = "242"
  /\ held.current
  /\ Len(plural_entries_map) = Len(untranslated_entries)

\* the units untranslated entry i has in get_untranslated_texts
UnitsOf(i) ==
  entry_units(entries[untranslated_entries[i]], plural_entries_map[i].is_plural,
              get_plural_count_from_po(po_loaded, entries, metadata))

\* the position, in the list get_untranslated_texts returns, of the first
\* unit of untranslated entry i
RECURSIVE FirstUnit(_)
FirstUnit(i) == IF i = 1 THEN 1 ELSE FirstUnit(i - 1) + Len(UnitsOf(i - 1))

\* untranslated entry i holds the translations of its own units
OwnsItsUnits(i, translations) ==
  LET e == entries[untranslated_entries[i]]
  IN  IF plural_entries_map[i].is_plural
      THEN \A j \in 0..(Len(UnitsOf(i)) - 1) :
             /\ j \in DOMAIN e.msgstr_plural
             /\ e.msgstr_plural[j] = clean_text(translations[FirstUnit(i) + j])
      ELSE e.msgstr = clean_text(translations[FirstUnit(i)])

\* C26: once the count validation has passed, the loop writes every
\* translated unit to the entry that owns it in export order: the units of a
\* pluralizable entry to its plural form slots, the units after it to the
\* entries after it.
C26_UnitsToOwners ==
  \A w \in workers :
    (LoopDone(w) /\ calls = 2) =>
      \A i \in 1..Len(untranslated_entries) : OwnsItsUnits(i, w.texts)

\* the entries before the first pluralizable one hold their translations
C26_BeforeFirstPlural ==
  \A w \in workers :
    (LoopDone(w) /\ calls = 2) =>
      \A i \in 1..Len(untranslated_entries) :
        (\A h \in 1..i : ~plural_entries_map[h].is_plural) => OwnsItsUnits(i, w.texts)

\* the translation of the singular source is in the msgstr of the
\* pluralizable entry, its form slots are as loaded and the translation of
\* the plural source is in no entry
C26_Misplaced ==
  \E w \in workers :
    /\ LoopDone(w) /\ calls = 2
    /\ w.texts = <<<<"t", " ", " ", "u">>, <<"v">>, <<"w">>>>
    /\ Len(entries) = 2
    /\ entries[1].msgstr = <<"t", " ", "u">>
    /\ entries[2].msgstr = <<"v">>
    /\ entries[2].msgstr_plural = EntryPlural.msgstr_plural
    /\ \A k \in 1..2 : entries[k].msgstr # <<"w">>

-----------------------------------------------------------------------------
(* The line-break token of get_untranslated_texts *)

\* p occurs in s
Occurs(s, p) == \E k \in 1..(Len(s) - Len(p) + 1) : SubSeq(s, k, k + Len(p) - 1) = p

\* the line breaks of a text read in text mode
LineBreaks(s) == Cardinality({k \in 1..Len(read(s)) : read(s)[k] = LF})

\* the thread read the file export_task wrote for the catalog loaded, as it
\* was written
UneditedExport(w) ==
  /\ w.path = "exported"
  /\ calls = 3
  /\ out_file.exists
  /\ ~worker_texts.raised
  /\ out_file.content = export_plain_format(worker_texts.texts)

\* C29: a source text with internal line breaks, exported through
\* get_untranslated_texts and export_texts_to_file and read back unedited
\* through import_texts_from_file and the loop of generate_task, gives a
\* translation with the line breaks of the source and without the token that
\* stood for them.
C29_TokenReversed ==
  \A w \in workers :
    (LoopDone(w) /\ UneditedExport(w)) =>
      \A i \in 1..Len(untranslated_entries) :
        ~plural_entries_map[i].is_plural =>
          LET e == entries[untranslated_entries[i]]
          IN  /\ ~Occurs(e.msgstr, NEWLINE_PLACEHOLDER)
              /\ LineBreaks(e.msgstr) = LineBreaks(e.msgid)

\* the translation written is the exported line itself, tokens included
C29_TokenLeft ==
  \E w \in workers :
    /\ LoopDone(w) /\ UneditedExport(w)
    /\ entries[1].msgid = <<LF, "a", LF, "b", LF>>
    /\ entries[1].msgstr =
         NEWLINE_PLACEHOLDER \o <<"a">> \o NEWLINE_PLACEHOLDER \o <<"b">>
           \o NEWLINE_PLACEHOLDER

-----------------------------------------------------------------------------
(* The command line: every run is a process with a POParser and a           *)
(* TextProcessor of its own; the files it writes stay for the next run.     *)

\* the catalogs given as --input
CliCatalogs ==
  {[entries |-> es, metadata |-> [PluralForms |-> <<>>, Language |-> ""]] :
     es \in { <<EntryBackslash>>, <<EntryCR, EntryBackslash>>,
              <<EntryPlural, EntryBackslash>>, <<EntryPluralLines>>,
              <<EntryLines, EntryPlural>> }}

\* the arguments main() lets through to run_cli: --export given or not, a
\* --format of the choices, --import with --output naming a file that exists
\* or neither, --language
CliArgs ==
  {a \in [export : BOOLEAN, format : RecognizedFormats,
          import_file : {"", "typed", "exported"}, language : {"zh_CN", ""}] :
     a.import_file = "exported" => (out_file.exists \/ a.export)}

\* run_cli(args) on the catalog at args.input
RunCli(cat, args) ==
  LET info == get_translation_info(TRUE, cat.entries)
      ue == untranslated_of(cat.entries)
      pem == plural_map_of(cat.entries)
      texts == get_untranslated_texts(TRUE, cat.entries, cat.metadata, ue, pem)
      format == set_export_format("numbered", args.format).export_format
      export == export_texts_to_file(format, texts, TRUE, TRUE)
      written == IF args.export /\ export.opened THEN File(export.content) ELSE out_file
      translations ==
        import_texts_from_file(IF args.import_file = "exported" THEN written
                               ELSE translation_file(args.import_file))
      valid == validate_translation_count(info.untranslated, translations)
      applied == apply_cleaned(cat.entries, ue, translations)
      parser(es, md) ==
        /\ po_loaded' = TRUE
        /\ entries' = es
        /\ metadata' = md
        /\ untranslated_entries' = ue
        /\ plural_entries_map' = pem
  IN  /\ calls < MaxCalls
      /\ calls' = calls + 1
      /\ UNCHANGED <<txt_file, last_call, pre_entries, norm_count, tp_call,
                     current_po_file, workers, held>>
      /\ IF cat = Unreadable
         THEN /\ po_loaded' = FALSE
              /\ entries' = <<>>
              /\ metadata' = [PluralForms |-> <<>>, Language |-> ""]
              /\ untranslated_entries' = <<>>
              /\ plural_entries_map' = <<>>
              /\ export_format' = "numbered"
              /\ cli' = CliRun(cat.entries, <<>>, 0, <<>>, FALSE, FALSE, FALSE)
              /\ UNCHANGED out_file
         ELSE IF info.untranslated = 0
         THEN /\ parser(cat.entries, cat.metadata)
              /\ export_format' = "numbered"
              /\ cli' = CliRun(cat.entries, <<>>, 0, <<>>, FALSE, FALSE, TRUE)
              /\ UNCHANGED out_file
         ELSE IF args.export /\ ~export.ok
         THEN /\ parser(cat.entries, cat.metadata)
              /\ export_format' = format
              /\ out_file' = written
              /\ cli' = CliRun(cat.entries, <<>>, info.untranslated, <<>>, FALSE,
                               FALSE, FALSE)
         ELSE /\ export_format' = IF args.export THEN format ELSE "numbered"
              /\ out_file' = written
              /\ IF args.import_file = ""
                 THEN /\ parser(cat.entries, cat.metadata)
                      /\ cli' = CliRun(cat.entries, IF args.export THEN texts ELSE <<>>,
                                       info.untranslated, <<>>, FALSE, FALSE, TRUE)
                 ELSE IF translations = <<>>
                 THEN /\ parser(cat.entries, cat.metadata)
                      /\ cli' = CliRun(cat.entries, IF args.export THEN texts ELSE <<>>,
                                       info.untranslated, <<>>, FALSE, FALSE, FALSE)
                 ELSE IF ~valid
                 THEN /\ parser(cat.entries, cat.metadata)
                      /\ cli' = CliRun(cat.entries, IF args.export THEN texts ELSE <<>>,
                                       info.untranslated, translations, TRUE, FALSE,
                                       FALSE)
                 ELSE /\ parser(repair_passes(TRUE, applied, cat.metadata, args.language),
                                update_metadata(cat.metadata, args.language))
                      /\ cli' = CliRun(cat.entries, IF args.export THEN texts ELSE <<>>,
                                       info.untranslated, translations, TRUE, TRUE, TRUE)

Run == \E cat \in CliCatalogs \cup {Unreadable} : \E args \in CliArgs : RunCli(cat, args)

NextCli == Run

SpecCli == Init /\ [][NextCli]_vars

\* C27: for every catalog, those with translated or pluralizable entries
\* included, the number of translations the validation of a run requires is
\* the number of texts the export step of the run writes, so that the
\* exported file translated line for line passes the validation.
C27_RequiredIsExported == (cli.exported # <<>>) => Len(cli.exported) = cli.required

\* the two numbers agree for a catalog in which every entry with a non-blank
\* source is untranslated and has no plural source
C27_UntranslatedSingles ==
  (/\ cli.exported # <<>>
   /\ \A k \in 1..Len(cli.input) :
        strip(cli.input[k].msgid) # <<>> =>
          (~IsPlural(cli.input[k]) /\ ~IsTranslated(cli.input[k])))
    => Len(cli.exported) = cli.required

\* a run exported its texts, read the file back with as many texts as it had
\* written, and the validation refused them
C27_Rejected ==
  /\ cli.exported # <<>>
  /\ cli.translations = cli.exported
  /\ cli.validated /\ ~cli.valid /\ ~cli.result
  /\ Len(cli.exported) = 2 /\ cli.required = 1

\* a run exported, read the file back, passed the validation and saved
C27_Accepted ==
  /\ cli.exported # <<>>
  /\ Len(cli.translations) = Len(cli.exported)
  /\ cli.validated /\ cli.valid /\ cli.result

-----------------------------------------------------------------------------
(* The plural side table and the entry list *)

\* plural_entries_map has one record for every index of untranslated_entries
\* and no other, and is_plural tells whether the entry has a plural source
TableInSync ==
  /\ DOMAIN plural_entries_map = DOMAIN untranslated_entries
  /\ \A i \in DOMAIN untranslated_entries :
       /\ untranslated_entries[i] \in DOMAIN entries
       /\ plural_entries_map[i].is_plural
            <=> (entries[untranslated_entries[i]].msgid_plural # <<>>)

\* C30: after any sequence of completed load_po_file calls, successful or
\* failed, plural_entries_map has exactly one record per index of
\* untranslated_entries, whose is_plural flag is true exactly when the entry
\* at the index has a non-empty plural source; export, import and save change
\* neither the table nor the entry list.
C30_TableInSync ==
  /\ TableInSync
  /\ [][/\ TableInSync'
        /\ last_call'.op \in {"export", "import", "save"} =>
             UNCHANGED <<untranslated_entries, plural_entries_map>>]_vars

\* a catalog with a blank-source record, a pluralizable and a plain entry was
\* loaded, a call other than a load was made, and a later load failed
C30_Witness ==
  /\ LoadFailed
  /\ calls = 3
  /\ Len(untranslated_entries) = 2 /\ Len(entries) = 3
  /\ plural_entries_map[1].is_plural /\ ~plural_entries_map[2].is_plural
  /\ TableInSync
====
